---- MODULE Spec2Model ----
(***************************************************************************)
(* puppeteer-monitor: the capture engine (page-monitoring.mjs), the        *)
(* listener lifecycle (tab-switching.mjs), the keyboard and request        *)
(* surfaces (keyboard-handler.mjs, http-state-setup.mjs), the dump         *)
(* (dump.mjs) and the shutdown (cleanup.mjs), as one state machine.        *)
(*                                                                         *)
(* Node runs one callback at a time: every action below is one callback    *)
(* run from its start to its next await (or its end).  A handler that      *)
(* awaits leaves a record in `pending` (capture handlers), `dumps`,        *)
(* `switchPc`/`httpSwitch` or `cleanupPc`, and a later action resumes it.  *)
(***************************************************************************)
EXTENDS Naturals, Sequences, FiniteSets

\* ------------------------------------------------------------------ bounds
MaxEvents  == 3   \* page events the browser emits in one run
MaxAttach  == 3   \* calls of setupPageMonitoring in one run (initial + switches)
MaxReqs    == 2   \* distinct request objects the browser creates
MaxDumps   == 2   \* dumps started in one run

\* ------------------------------------------------------------- the browser
Pages   == {"A", "B"}                 \* the user tabs of the browser
TabList == <<"A", "B">>               \* browser.pages() when a session starts
NoPage  == "none"
Reqs    == 1 .. MaxReqs               \* request objects, by identity

\* '?????' : the id logged for a terminal event with no in-flight entry
PlaceholderId == 0

\* msg.type() and what the rendered text matches
ConsoleKinds == {"log", "clear", "ignored", "hmr"}
\* content-type of a response: text-like (body is awaited) or not
BodyKinds    == {"text", "binary"}

VARIABLES
  \* --- createSetupPageMonitoring / setupPageMonitoring
  listeners,          \* {[page, inst]}: pages carrying the five listeners of instance inst
  activePageCleanup,  \* the stored cleanup closure: [page, inst], or Null
  requestData,        \* {[inst, req, id]}: the in-flight maps, one per instance
  attachCount,        \* times the five listeners were registered
  detachCount,        \* times a registered set of listeners was removed
  \* --- mode-local session state (open-mode / join-mode)
  page,               \* page / monitoredPages[0]: target of dump snapshots and status
  collectingPaused,
  isSelectingTab,
  browser,            \* TRUE while the control channel is open
  offered,            \* the pages the open tab-selection prompt lists; << >> without a prompt
  promptKeyCommand,   \* what the command handler did with the key that answered the last prompt
  laterSwitch,        \* a further keyboard tab switch started meanwhile: "idle", "pages"
  \* --- LogBuffer
  consoleBuffer,
  networkBuffer,
  requestDetails,     \* set of RequestDetail records
  requestCounter,
  \* --- artifacts on disk
  consoleLog,
  networkLog,
  networkDir,
  \* --- suspended callbacks
  pending,            \* capture handlers waiting at their await
  dumps,              \* dumps waiting at a collaborator: [surface, pc, failed]
  switchPc,           \* keyboard tab switch: "idle", "pages", "asking"
  httpSwitch,         \* request-surface tab switches waiting for browser.pages(): set of indexes
  cleanupDone,
  cleanupPc,          \* "idle", "http", "browser", "exited"
  cleanupArgs,        \* [code, closeBrowser] of the cleanup that runs
  cleanupRuns,        \* times the body of cleanup was entered
  outcome,            \* how the run ended: [browser (open, closed, disconnected), exited, code]
  timer,              \* the hard timeout: "armed", "fired"
  statusPc,           \* keyboard status: "idle", "info" (await getStatusInfo())
  statusBlock,        \* the last status report: [shown, stats, at (events emitted then)]
  thrown,             \* exceptions raised in capture handlers: [stale, fatal, late, propagated]
  \* --- the connection manager (runOpenMode / runJoinMode up to the connected browser)
  intent,             \* [mode, wsl, hint]: open or join, on WSL or not, port given or not
  connPc,             \* where the mode function waits; "connected" and "exited" are final
  actualPort,         \* the debug port the run uses; 0 while none is chosen
  attempts,           \* handshake attempts made (fetch /json/version + puppeteer.connect)
  delays,             \* RETRY_DELAY waits taken before an attempt
  diagnosis,          \* [runs, result]: calls of runWslDiagnostics and the last classification
  confirmed,          \* questions the operator answered with yes
  declined,           \* questions the operator answered with no
  exitCode,           \* the argument of process.exit once connPc = "exited"
  rounds,             \* times the wait-for-Chrome table was shown and a key awaited
  chrome,             \* [spawned, killed]: browser processes started and kill commands run
  \* --- Windows, seen through netsh
  portProxy,          \* the forwarding rules: {[type, listen, connect]}
  admin,              \* TRUE when netsh may change rules (elevated shell)
  lastCall,           \* the last port-proxy operation: [n, fn, port, ret, cmds]
  \* --- the browser's tabs (browser.pages()) and what the tab list shows of them
  browserPages,       \* the pages of the browser, in the order browser.pages() returns them
  tabs,               \* the last tab list: [made, raw (the pages it was made from), list]
  newTabs,            \* targetcreated: [awaiting (handlers at await target.page()), logged]
  \* --- the page's document and cookies, and the snapshots a dump takes of them
  html,               \* document.documentElement.outerHTML: [len (code units), width (bytes each)]
  domHtml,            \* the file DOM_HTML: [written, len (code units of the document), marker]
  cookies,            \* the domains of the cookies the browser holds
  cookiesDir,         \* COOKIES_DIR: [n (snapshots run), ran, files {[name, dump]}]
  \* --- the environment and the history of the run
  reqPhase,           \* per request object: "new", "sent", "responded", "closed"
  reqOwner,           \* per request object: the page that issued it
  emitted,            \* page events emitted so far
  dumpsStarted,       \* dumps started so far
  budget              \* what one run may use: [events, attach, dumps]; fixed by Init

vars == << listeners, activePageCleanup, requestData, attachCount, detachCount,
           page, collectingPaused, isSelectingTab, browser, offered, promptKeyCommand, laterSwitch,
           consoleBuffer, networkBuffer, requestDetails, requestCounter,
           consoleLog, networkLog, networkDir,
           pending, dumps, switchPc, httpSwitch, cleanupDone, cleanupPc, cleanupArgs,
           cleanupRuns, outcome, timer, statusPc, statusBlock, thrown,
           intent, connPc, actualPort, attempts, delays, diagnosis, confirmed, declined,
           exitCode, rounds, chrome, portProxy, admin, lastCall,
           browserPages, tabs, newTabs, html, domHtml, cookies, cookiesDir,
           reqPhase, reqOwner, emitted, dumpsStarted, budget >>

attachVars  == << listeners, activePageCleanup, attachCount, detachCount >>
bufferVars  == << consoleBuffer, networkBuffer, requestDetails, requestCounter >>
fileVars    == << consoleLog, networkLog, networkDir >>
sessionVars == << page, collectingPaused, isSelectingTab, browser >>
flowVars    == << dumps, switchPc, httpSwitch, cleanupDone, cleanupPc, cleanupArgs >>
envVars     == << reqPhase, reqOwner >>
statusVars  == << statusPc, statusBlock >>
timerVars   == << timer, cleanupRuns >>
errorVars   == << thrown >>
promptVars  == << offered, promptKeyCommand, laterSwitch >>
endVars     == << outcome >>
browserVars == << browserPages, tabs, newTabs, html, domHtml, cookies, cookiesDir >>
connVars    == << intent, connPc, actualPort, attempts, delays, diagnosis, confirmed, declined,
                 exitCode, rounds, chrome, portProxy, admin, lastCall >>

Null == [page |-> NoPage, inst |-> 0]

\* the page the stored cleanup closure belongs to: the page being recorded
Attached == activePageCleanup.page

Running == cleanupPc # "exited"

\* --------------------------------------------------------------- the keyboard
\* a keypress: key.name and the modifiers
Key(name)  == [name |-> name, ctrl |-> FALSE, shift |-> FALSE, meta |-> FALSE]
Ctrl(name) == [name |-> name, ctrl |-> TRUE, shift |-> FALSE, meta |-> FALSE]

\* process.stdin.on('keypress'): the command the handler runs for a key; Ctrl+C
\* always, nothing while a tab is being selected, shortcuts only without modifiers
keyCommand(key, selecting) ==
  IF key.ctrl /\ key.name = "c" THEN "cleanup"
  ELSE IF selecting THEN "none"
  ELSE IF key.ctrl \/ key.shift \/ key.meta THEN "none"
  ELSE CASE key.name = "d" -> "dump"
         [] key.name = "c" -> "clear"
         [] key.name = "q" -> "quit"
         [] key.name = "k" -> "kill"
         [] key.name = "s" -> "status"
         [] key.name = "p" -> "pause"
         [] key.name = "t" -> "switchTabs"
         [] key.name = "h" -> "help"
         [] OTHER -> "none"

\* the key is pressed and the command handler runs its command
Pressed(name) == keyCommand(Key(name), isSelectingTab) # "none"

\* parseInt(char, 10) of a key name; 0 stands for NaN, which is in no range
parseInt(char) ==
  CASE char = "1" -> 1 [] char = "2" -> 2 [] char = "3" -> 3 [] char = "4" -> 4 [] OTHER -> 0

\* the prompt that takes the first tab for an invalid selection
askUserToSelectPage_FirstOnInvalid(pages, key) ==
  LET char == key.name
      num  == parseInt(char)
  IN  IF char = "q" THEN NoPage
      ELSE IF num >= 1 /\ num <= Len(pages) THEN pages[num] ELSE pages[1]

\* askUserToSelectPage: the page the prompt resolves with for the key that answers
\* it; q cancels, a number outside 1..pages.length is an invalid selection
askUserToSelectPage(pages, key) ==
  LET char == key.name
      num  == parseInt(char)
  IN  IF char = "q" THEN NoPage
      ELSE IF num >= 1 /\ num <= Len(pages) THEN pages[num] ELSE NoPage

\* what the operator may press while a prompt is open
Keys == { Key(name) : name \in {"q", "1", "2", "3", "c", "d", "k", "p", "x"} }
          \cup { [name |-> "d", ctrl |-> FALSE, shift |-> TRUE, meta |-> FALSE] }

\* ------------------------------------------------------- the browser's pages
MaxPages == 2   \* pages browser.pages() returns at one time

\* pages that are not sites the user visits, and the empty tab
InternalPages == {"newtab", "inspector", "extension", "addon", "ext", "react", "redux", "hook"}
BlankPage     == "blank"
PageObjects   == Pages \cup {BlankPage} \cup InternalPages

\* p.url(), as the scheme it starts with and the text that follows
url(p) ==
  CASE p = "A"         -> [scheme |-> "https://", rest |-> "a.example/"]
    [] p = "B"         -> [scheme |-> "https://", rest |-> "b.example/"]
    [] p = "blank"     -> [scheme |-> "about:", rest |-> "blank"]
    [] p = "newtab"    -> [scheme |-> "chrome://", rest |-> "newtab/"]
    [] p = "inspector" -> [scheme |-> "devtools://", rest |-> "devtools/bundled/inspector.html"]
    [] p = "extension" -> [scheme |-> "chrome-extension://", rest |-> "background.html"]
    [] p = "addon"     -> [scheme |-> "moz-extension://", rest |-> "background.html"]
    [] p = "ext"       -> [scheme |-> "extension://", rest |-> "background.html"]
    [] p = "react"     -> [scheme |-> "https://", rest |-> "react-devtools"]
    [] p = "redux"     -> [scheme |-> "https://", rest |-> "redux-devtools"]
    [] p = "hook"      -> [scheme |-> "https://", rest |-> "__react_devtools__"]

startsWith(u, prefix) == u.scheme = prefix
mentions(u, text)     == u.rest = text

isUserPage(p) ==
  LET u == url(p) IN
  /\ ~startsWith(u, "chrome://")
  /\ ~startsWith(u, "devtools://")
  /\ ~startsWith(u, "chrome-extension://")
  /\ ~startsWith(u, "moz-extension://")
  /\ ~startsWith(u, "extension://")
  /\ ~(mentions(u, "react-devtools") \/ mentions(u, "redux-devtools"))
  /\ ~mentions(u, "__react_devtools__")

isBlank(p) == url(p) = [scheme |-> "about:", rest |-> "blank"]
nonBlankPage(p) == ~isBlank(p)

\* allPages.filter(isUserPage), then without about:blank unless nothing else is left
filterUserPages(allPages) ==
  LET pages    == SelectSeq(allPages, isUserPage)
      nonBlank == SelectSeq(pages, nonBlankPage)
  IN  IF Len(nonBlank) > 0 THEN nonBlank ELSE pages

\* getAllTabs: [] without a browser, else the user pages numbered from 1
getAllTabs(connected, allPages) ==
  IF ~connected THEN << >>
  ELSE LET pages == filterUserPages(allPages)
       IN  [i \in 1 .. Len(pages) |-> [index |-> i, page |-> pages[i]]]

\* what browser.pages() may return: up to MaxPages pages, none of them twice
RawLists == UNION { {l \in [1 .. n -> PageObjects] : \A i, j \in 1 .. n : l[i] = l[j] => i = j}
                    : n \in 0 .. MaxPages }

NoTabs == [made |-> FALSE, raw |-> << >>, list |-> << >>]

\* ---------------------------------------------------------------- LogBuffer
\* A log line.  ev is the emission number of the page event it renders (0 for a
\* line the monitor writes itself), src the page that event came from, att the
\* page the capture engine was attached to when the line was appended, gated the
\* pause flag at the moment the event was delivered.
Line(ev, kind, src, id, gated) ==
  [ev |-> ev, kind |-> kind, src |-> src, id |-> id, att |-> Attached, gated |-> gated]

logConsole(buf, line) == Append(buf, line)

logNetwork(buf, line) == Append(buf, line)

printConsoleSeparator(buf, ev, title, src, gated) == Append(buf, Line(ev, title, src, 0, gated))

printNetworkSeparator(buf, title) == Append(buf, Line(0, title, NoPage, 0, FALSE))

clearConsoleBuffer == << >>

nextRequestId == requestCounter + 1

\* a RequestDetail: created pending, then merged with a response or a failure part.
\* History fields: updates counts the merges, updReq/updSrc name the request object
\* and page of the last terminal event merged, updAtt the page attached at that time.
Detail(id, ev, req, src, gated) ==
  [id |-> id, ev |-> ev, req |-> req, src |-> src, gated |-> gated,
   response |-> FALSE, failed |-> FALSE,
   updates |-> 0, updReq |-> 0, updSrc |-> NoPage, updAtt |-> NoPage]

saveRequestDetail(details, d) == {x \in details : x.id # d.id} \cup {d}

\* merges `part` ("response" or "failed") into the detail with this id, if it is stored
updateRequestDetail(details, id, part, src, req) ==
  { IF x.id # id THEN x
    ELSE [x EXCEPT !.response = (@ \/ part = "response"),
                   !.failed   = (@ \/ part = "failed"),
                   !.updates  = @ + 1,
                   !.updReq   = req,
                   !.updSrc   = src,
                   !.updAtt   = Attached] : x \in details }

getStats == [consoleEntries |-> Len(consoleBuffer),
             networkEntries |-> Len(networkBuffer),
             requestDetails |-> Cardinality(requestDetails)]

\* --------------------------------------------------- the in-flight request map
\* a lookup that ignores the identity of the request object
MapGet_Any(inst, req) == {x \in requestData : x.inst = inst}
MapGet(inst, req)  == {x \in requestData : x.inst = inst /\ x.req = req}
MapSet(inst, req, id) ==
  {x \in requestData : ~(x.inst = inst /\ x.req = req)} \cup {[inst |-> inst, req |-> req, id |-> id]}
MapDelete(inst, req) == {x \in requestData : ~(x.inst = inst /\ x.req = req)}
MapClear(inst)       == {x \in requestData : x.inst # inst}

\* ------------------------------------------------------------ capture handlers
\* Each handler runs on the listener l = [page, inst] that received the event.
\* Tag numbers the event being delivered; a line also carries `gated`, the pause
\* flag as it was when its event was delivered.
Tag == emitted + 1

Suspended(handler, l, kind, req, id) ==
  [h |-> handler, ev |-> Tag, src |-> l.page, kind |-> kind, req |-> req, id |-> id,
   gated |-> collectingPaused]

Gated == UNCHANGED << consoleBuffer, networkBuffer, requestDetails, requestCounter,
                      requestData, pending >>

onConsoleBody(l, kind) ==
  IF kind = "clear"
  THEN /\ consoleBuffer' = printConsoleSeparator(clearConsoleBuffer, Tag, "CONSOLE CLEARED",
                                                 l.page, collectingPaused)
       /\ UNCHANGED << networkBuffer, requestDetails, requestCounter, requestData, pending >>
  ELSE \* await Promise.all(args.map(arg => arg.jsonValue()))
       /\ pending' = pending \cup {Suspended("console", l, kind, 0, 0)}
       /\ UNCHANGED << consoleBuffer, networkBuffer, requestDetails, requestCounter, requestData >>

onConsole(l, kind) ==
  IF collectingPaused THEN Gated ELSE onConsoleBody(l, kind)

\* onConsole after its await: shouldIgnore, isHmr, logConsole
onConsoleResume(h) ==
  /\ pending' = pending \ {h}
  /\ IF h.kind = "ignored"
     THEN UNCHANGED consoleBuffer
     ELSE consoleBuffer' =
            logConsole(IF h.kind = "hmr"
                       THEN printConsoleSeparator(consoleBuffer, 0, "HMR UPDATE", NoPage, FALSE)
                       ELSE consoleBuffer,
                       Line(h.ev, "LOG", h.src, 0, h.gated))
  /\ UNCHANGED << networkBuffer, requestDetails, requestCounter, requestData >>

\* onPageError that logs nothing
onPageErrorBody_Silent(l) ==
  UNCHANGED << consoleBuffer, networkBuffer, requestDetails, requestCounter, requestData,
               pending >>

onPageErrorBody(l) ==
  /\ consoleBuffer' = logConsole(consoleBuffer, Line(Tag, "PAGE ERROR", l.page, 0, collectingPaused))
  /\ UNCHANGED << networkBuffer, requestDetails, requestCounter, requestData, pending >>

onPageError(l) ==
  IF collectingPaused THEN Gated ELSE onPageErrorBody(l)

\* onRequest that numbers a request by the size of its own closure's in-flight map
onRequestBody_LocalIds(l, request) ==
  LET id == Cardinality({x \in requestData : x.inst = l.inst}) + 1 IN
  /\ requestCounter' = id
  /\ requestData' = MapSet(l.inst, request, id)
  /\ requestDetails' = saveRequestDetail(requestDetails,
                                         Detail(id, Tag, request, l.page, collectingPaused))
  /\ networkBuffer' = logNetwork(networkBuffer, Line(Tag, "-->", l.page, id, collectingPaused))
  /\ UNCHANGED << consoleBuffer, pending >>

onRequestBody(l, request) ==
  LET id == nextRequestId IN
  /\ requestCounter' = id
  /\ requestData' = MapSet(l.inst, request, id)
  /\ requestDetails' = saveRequestDetail(requestDetails,
                                         Detail(id, Tag, request, l.page, collectingPaused))
  /\ networkBuffer' = logNetwork(networkBuffer, Line(Tag, "-->", l.page, id, collectingPaused))
  /\ UNCHANGED << consoleBuffer, pending >>

\* onRequest without the pause gate
onRequest_NoGate(l, request) == onRequestBody(l, request)

onRequest(l, request) ==
  IF collectingPaused THEN Gated ELSE onRequestBody(l, request)

\* a matched response that leaves the in-flight entry in the map
onResponseMatched_KeepEntry(l, req, data, body) ==
  /\ requestData' = requestData
  /\ IF body = "text"
     THEN /\ pending' = pending \cup {Suspended("response", l, body, req, data.id)}
          /\ UNCHANGED << networkBuffer, requestDetails >>
     ELSE /\ requestDetails' = updateRequestDetail(requestDetails, data.id, "response",
                                                   l.page, req)
          /\ networkBuffer' = logNetwork(networkBuffer,
                                         Line(Tag, "<--", l.page, data.id, collectingPaused))
          /\ UNCHANGED pending
  /\ UNCHANGED << consoleBuffer, requestCounter >>

\* a matched response: the in-flight entry is deleted before the body is awaited
onResponseMatched(l, req, data, body) ==
  /\ requestData' = MapDelete(l.inst, req)
  /\ IF body = "text"
     THEN \* await response.text()
          /\ pending' = pending \cup {Suspended("response", l, body, req, data.id)}
          /\ UNCHANGED << networkBuffer, requestDetails >>
     ELSE /\ requestDetails' = updateRequestDetail(requestDetails, data.id, "response",
                                                   l.page, req)
          /\ networkBuffer' = logNetwork(networkBuffer,
                                         Line(Tag, "<--", l.page, data.id, collectingPaused))
          /\ UNCHANGED pending
  /\ UNCHANGED << consoleBuffer, requestCounter >>

\* onResponse that logs nothing for a response it cannot match
onResponseBody_DropUnmatched(l, req, body) ==
  IF MapGet(l.inst, req) # {}
  THEN \E data \in MapGet(l.inst, req) : onResponseMatched(l, req, data, body)
  ELSE UNCHANGED << consoleBuffer, networkBuffer, requestDetails, requestCounter,
                    requestData, pending >>

onResponseBody(l, req, body) ==
  IF MapGet(l.inst, req) # {}
  THEN \E data \in MapGet(l.inst, req) : onResponseMatched(l, req, data, body)
  ELSE /\ networkBuffer' = logNetwork(networkBuffer,
                                      Line(Tag, "<--", l.page, PlaceholderId, collectingPaused))
       /\ UNCHANGED << consoleBuffer, requestDetails, requestCounter, requestData, pending >>

onResponse(l, req, body) ==
  IF collectingPaused THEN Gated ELSE onResponseBody(l, req, body)

\* onResponse after await response.text(): updateRequestDetail, logNetwork
onResponseResume(h) ==
  /\ pending' = pending \ {h}
  /\ requestDetails' = updateRequestDetail(requestDetails, h.id, "response", h.src, h.req)
  /\ networkBuffer' = logNetwork(networkBuffer, Line(h.ev, "<--", h.src, h.id, h.gated))
  /\ UNCHANGED << consoleBuffer, requestCounter, requestData >>

\* the network line of a failed request shows its URL: an oauth2/sign_in URL or another
FailedLine(oauth) == IF oauth THEN "[FAILED] oauth2/sign_in" ELSE "[FAILED]"

\* onRequestFailed that leaves the in-flight entry in the map
onRequestFailedBody_KeepEntry(l, request, oauth) ==
  /\ requestData' = requestData
  /\ IF MapGet(l.inst, request) # {}
     THEN \E data \in MapGet(l.inst, request) :
            /\ requestDetails' = updateRequestDetail(requestDetails, data.id, "failed",
                                                     l.page, request)
            /\ networkBuffer' = logNetwork(networkBuffer,
                                   Line(Tag, FailedLine(oauth), l.page, data.id, collectingPaused))
     ELSE /\ networkBuffer' = logNetwork(networkBuffer,
                                   Line(Tag, FailedLine(oauth), l.page, PlaceholderId, collectingPaused))
          /\ UNCHANGED requestDetails
  /\ IF oauth
     THEN UNCHANGED consoleBuffer
     ELSE consoleBuffer' = logConsole(consoleBuffer,
                                      Line(Tag, "[FAILED]", l.page, 0, collectingPaused))
  /\ UNCHANGED << requestCounter, pending >>

onRequestFailedBody(l, request, oauth) ==
  /\ IF MapGet(l.inst, request) # {}
     THEN \E data \in MapGet(l.inst, request) :
            /\ requestData' = MapDelete(l.inst, request)
            /\ requestDetails' = updateRequestDetail(requestDetails, data.id, "failed",
                                                     l.page, request)
            /\ networkBuffer' = logNetwork(networkBuffer,
                                   Line(Tag, FailedLine(oauth), l.page, data.id, collectingPaused))
     ELSE /\ networkBuffer' = logNetwork(networkBuffer,
                                   Line(Tag, FailedLine(oauth), l.page, PlaceholderId, collectingPaused))
          /\ UNCHANGED << requestData, requestDetails >>
  /\ IF oauth
     THEN UNCHANGED consoleBuffer
     ELSE consoleBuffer' = logConsole(consoleBuffer,
                                      Line(Tag, "[FAILED]", l.page, 0, collectingPaused))
  /\ UNCHANGED << requestCounter, pending >>

onRequestFailed(l, request, oauth) ==
  IF collectingPaused THEN Gated ELSE onRequestFailedBody(l, request, oauth)

\* --------------------------------------------------------- listener lifecycle
\* cleanupActivePageListeners: run the stored closure (removeListeners(targetPage),
\* requestData.clear()) and forget it.  As the three values it leaves behind:
ListenersAfterCleanup ==
  IF activePageCleanup # Null THEN listeners \ {activePageCleanup} ELSE listeners

\* the closure that removes the listeners and leaves the in-flight map as it is
RequestDataAfterCleanup_Keep == requestData

RequestDataAfterCleanup ==
  IF activePageCleanup # Null THEN MapClear(activePageCleanup.inst) ELSE requestData

DetachedByCleanup ==
  IF activePageCleanup # Null /\ activePageCleanup \in listeners THEN 1 ELSE 0

cleanupActivePageListeners ==
  /\ listeners' = ListenersAfterCleanup
  /\ requestData' = RequestDataAfterCleanup
  /\ detachCount' = detachCount + DetachedByCleanup
  /\ activePageCleanup' = Null
  /\ UNCHANGED attachCount

\* setupPageMonitoring that registers the new listeners without detaching the old
setupPageMonitoring_NoDetach(targetPage) ==
  LET fresh == [page |-> targetPage, inst |-> attachCount + 1] IN
  /\ listeners' = listeners \cup {fresh}
  /\ requestData' = requestData
  /\ detachCount' = detachCount
  /\ attachCount' = attachCount + 1
  /\ activePageCleanup' = fresh

\* setupPageMonitoring of the factory: detach the previous page, then register the
\* five listeners of a fresh closure (with a fresh, empty in-flight map) on targetPage
setupPageMonitoring(targetPage) ==
  LET fresh == [page |-> targetPage, inst |-> attachCount + 1] IN
  /\ listeners' = ListenersAfterCleanup \cup {fresh}
  /\ requestData' = RequestDataAfterCleanup
  /\ detachCount' = detachCount + DetachedByCleanup
  /\ attachCount' = attachCount + 1
  /\ activePageCleanup' = fresh

\* the switch that attaches to the selected page without onTabSwitched
SwitchTo_NoTabSwitched(selectedPage) ==
  /\ page' = page
  /\ setupPageMonitoring(selectedPage)
  /\ consoleBuffer' = printConsoleSeparator(consoleBuffer, 0, "TAB SWITCHED", NoPage, FALSE)
  /\ networkBuffer' = printNetworkSeparator(networkBuffer, "TAB SWITCHED")

\* onTabSwitched, setupPageMonitoring and the two TAB SWITCHED separators
SwitchTo(selectedPage) ==
  /\ page' = selectedPage
  /\ setupPageMonitoring(selectedPage)
  /\ consoleBuffer' = printConsoleSeparator(consoleBuffer, 0, "TAB SWITCHED", NoPage, FALSE)
  /\ networkBuffer' = printNetworkSeparator(networkBuffer, "TAB SWITCHED")

Started == page # NoPage

SwitchesInFlight == (IF switchPc = "idle" THEN 0 ELSE 1) + Cardinality(httpSwitch)

\* join mode: monitoredPages = [selectedPage]; setupPageMonitoring(selectedPage);
\* the CONNECTED separators; then the keyboard is set up
InitialAttach(p) ==
  /\ ~Started
  /\ \E i \in 1 .. Len(filterUserPages(browserPages)) : filterUserPages(browserPages)[i] = p
  /\ page' = p
  /\ setupPageMonitoring(p)
  /\ consoleBuffer' = printConsoleSeparator(consoleBuffer, 0, "CONNECTED", NoPage, FALSE)
  /\ networkBuffer' = printNetworkSeparator(networkBuffer, "CONNECTED")
  /\ UNCHANGED << collectingPaused, isSelectingTab, browser, requestDetails, requestCounter,
                  pending, emitted >>
  /\ UNCHANGED << fileVars, flowVars, envVars, dumpsStarted, budget, browserVars, promptVars, endVars, statusVars, timerVars, errorVars, connVars >>

\* ----------------------------------------------------------- the page's events
CanEmit == Started /\ Running /\ browser /\ emitted < budget.events

Hear(p) == {l \in listeners : l.page = p}

\* the next request object the browser creates
NextReq == {r \in Reqs : reqPhase[r] = "new" /\ \A q \in Reqs : q < r => reqPhase[q] # "new"}

restOfEmit == << attachVars, sessionVars, fileVars, flowVars, dumpsStarted, budget, browserVars, promptVars, endVars,
                statusVars, timerVars, errorVars, connVars >>

Emitted == emitted' = emitted + 1

\* console and page-error events reach a handler only on a page that has listeners
EmitConsole(p, kind) ==
  /\ CanEmit
  /\ Emitted
  /\ \E l \in Hear(p) : onConsole(l, kind)
  /\ UNCHANGED << restOfEmit, envVars >>

EmitPageError(p) ==
  /\ CanEmit
  /\ Emitted
  /\ \E l \in Hear(p) : onPageError(l)
  /\ UNCHANGED << restOfEmit, envVars >>

\* request events advance the request's life cycle whether or not a listener hears them
Unheard == UNCHANGED << consoleBuffer, networkBuffer, requestDetails, requestCounter,
                        requestData, pending >>

EmitRequest(p, r) ==
  /\ CanEmit
  /\ r \in NextReq
  /\ Emitted
  /\ reqPhase' = [reqPhase EXCEPT ![r] = "sent"]
  /\ reqOwner' = [reqOwner EXCEPT ![r] = p]
  /\ IF Hear(p) = {} THEN Unheard ELSE \E l \in Hear(p) : onRequest(l, r)
  /\ UNCHANGED restOfEmit

EmitResponse(r, body) ==
  /\ CanEmit
  /\ reqPhase[r] = "sent"
  /\ Emitted
  /\ reqPhase' = [reqPhase EXCEPT ![r] = "responded"]
  /\ LET p == reqOwner[r] IN
     IF Hear(p) = {} THEN Unheard ELSE \E l \in Hear(p) : onResponse(l, r, body)
  /\ UNCHANGED << restOfEmit, reqOwner >>

EmitRequestFailed(r, oauth) ==
  /\ CanEmit
  /\ reqPhase[r] \in {"sent", "responded"}
  /\ Emitted
  /\ reqPhase' = [reqPhase EXCEPT ![r] = "closed"]
  /\ LET p == reqOwner[r] IN
     IF Hear(p) = {} THEN Unheard ELSE \E l \in Hear(p) : onRequestFailed(l, r, oauth)
  /\ UNCHANGED << restOfEmit, reqOwner >>

\* a suspended capture handler continues: its promise settled (also after a switch,
\* a pause or a disconnect: a rejected promise is caught and the line still written)
ResumeHandler(h) ==
  /\ Running
  /\ h \in pending
  /\ IF h.h = "console" THEN onConsoleResume(h) ELSE onResponseResume(h)
  /\ UNCHANGED << restOfEmit, envVars, emitted >>

\* ------------------------------------------------------------ pause and resume
restOfPause == << attachVars, page, isSelectingTab, browser, bufferVars, fileVars,
                  requestData, pending, flowVars, envVars, emitted, dumpsStarted, budget, browserVars, promptVars, endVars,
                  statusVars, timerVars, errorVars, connVars >>

\* keyboard p: setCollectingPaused(!getCollectingPaused())
KeyP ==
  /\ Started /\ Running /\ Pressed("p")
  /\ collectingPaused' = ~collectingPaused
  /\ UNCHANGED restOfPause

\* request surface: stop (v = TRUE) and start (v = FALSE) call setCollectingPaused(v)
HttpSetPaused(v) ==
  /\ Started /\ Running
  /\ collectingPaused # v
  /\ collectingPaused' = v
  /\ UNCHANGED restOfPause

\* ------------------------------------------------------------------ tab switch
restOfSwitch == << collectingPaused, requestDetails, requestCounter, fileVars, pending,
                   dumps, cleanupDone, cleanupPc, cleanupArgs, envVars, emitted,
                   dumpsStarted, budget, browserVars, endVars, statusVars, timerVars, errorVars, connVars >>

\* keyboard t: switchTabs() up to await browser.pages()
KeyT ==
  /\ Started /\ Running /\ Pressed("t")
  /\ switchPc = "idle"
  /\ attachCount + SwitchesInFlight < budget.attach
  /\ switchPc' = "pages"
  /\ UNCHANGED << attachVars, sessionVars, bufferVars, requestData, httpSwitch, promptVars,
                  restOfSwitch >>

\* browser.pages() settled: two or more user tabs, so the prompt opens; a closed
\* channel rejects and the catch block resets the flag
SwitchTabsListed ==
  /\ Running
  /\ switchPc = "pages"
  /\ LET pages == filterUserPages(browserPages) IN
     IF ~browser
     THEN switchPc' = "idle" /\ isSelectingTab' = FALSE /\ offered' = << >>
     ELSE IF Len(pages) <= 1
     THEN switchPc' = "idle" /\ UNCHANGED << isSelectingTab, offered >>
     ELSE switchPc' = "asking" /\ isSelectingTab' = TRUE /\ offered' = pages
  /\ UNCHANGED << attachVars, page, collectingPaused, browser, bufferVars, requestData,
                  httpSwitch, promptKeyCommand, laterSwitch, restOfSwitch >>

\* askUserToSelectPage resolved with a page
SwitchTabsSelected(selectedPage) ==
  /\ Running
  /\ switchPc = "asking"
  /\ switchPc' = "idle"
  /\ isSelectingTab' = FALSE
  /\ offered' = << >>
  /\ SwitchTo(selectedPage)
  /\ UNCHANGED << browser, httpSwitch, restOfSwitch >>

\* askUserToSelectPage resolved with null
SwitchTabsCancelled ==
  /\ Running
  /\ switchPc = "asking"
  /\ switchPc' = "idle"
  /\ isSelectingTab' = FALSE
  /\ offered' = << >>
  /\ UNCHANGED << attachVars, page, collectingPaused, browser, bufferVars, requestData,
                  httpSwitch, restOfSwitch >>

\* a keypress while the prompt is open. Both listeners of stdin get it, the command
\* handler (registered first) and then the prompt's; the prompt resolves and
\* switchTabs continues when both have returned. Ctrl+C is KeyCtrlC.
SwitchTabsKey(key) ==
  /\ switchPc = "asking"
  /\ promptKeyCommand' = keyCommand(key, isSelectingTab)
  /\ UNCHANGED laterSwitch
  /\ LET selectedPage == askUserToSelectPage(offered, key) IN
     IF selectedPage = NoPage THEN SwitchTabsCancelled ELSE SwitchTabsSelected(selectedPage)

\* keyboard t once more while the first switchTabs() awaits browser.pages(): the
\* handler has no guard against a second run
KeyTAgain ==
  /\ Started /\ Running /\ Pressed("t")
  /\ switchPc = "pages"
  /\ laterSwitch = "idle"
  /\ laterSwitch' = "pages"
  /\ UNCHANGED << attachVars, sessionVars, bufferVars, requestData, httpSwitch, switchPc,
                  offered, promptKeyCommand, restOfSwitch >>

\* browser.pages() of the later run settled. A closed channel rejects and the catch
\* block resets the flag; fewer than two user tabs end the run; with two or more
\* the run opens its prompt (taken up here once the first run is over)
LaterSwitchListed ==
  /\ Running
  /\ laterSwitch = "pages"
  /\ laterSwitch' = "idle"
  /\ LET pages == filterUserPages(browserPages) IN
     IF ~browser
     THEN isSelectingTab' = FALSE /\ UNCHANGED << switchPc, offered >>
     ELSE IF Len(pages) <= 1
     THEN UNCHANGED << isSelectingTab, switchPc, offered >>
     ELSE /\ switchPc = "idle"
          /\ switchPc' = "asking" /\ isSelectingTab' = TRUE /\ offered' = pages
  /\ UNCHANGED << attachVars, page, collectingPaused, browser, bufferVars, requestData,
                  httpSwitch, promptKeyCommand, restOfSwitch >>

\* the browser goes away (closed by the user, crashed, network gone): the channel
\* is closed and every call on it rejects; the session has no handler for it
ConnectionLost ==
  /\ Started /\ Running /\ browser
  /\ browser' = FALSE
  /\ UNCHANGED << attachVars, page, collectingPaused, isSelectingTab, bufferVars, requestData,
                  httpSwitch, switchPc, promptVars, restOfSwitch >>

\* request surface: switchToTab(index) up to await browser.pages()
HttpSwitchStart(index) ==
  /\ Started /\ Running
  /\ httpSwitch = {}
  /\ attachCount + SwitchesInFlight < budget.attach
  /\ httpSwitch' = {index}
  /\ UNCHANGED << attachVars, sessionVars, bufferVars, requestData, switchPc, promptVars,
                  restOfSwitch >>

\* browser.pages() settled: index check, then the switch
HttpSwitchResume(index) ==
  /\ Running
  /\ index \in httpSwitch
  /\ httpSwitch' = httpSwitch \ {index}
  /\ IF browser /\ index >= 1 /\ index <= Len(filterUserPages(browserPages))
     THEN SwitchTo(filterUserPages(browserPages)[index])
     ELSE UNCHANGED << attachVars, page, consoleBuffer, networkBuffer, requestData >>
  /\ UNCHANGED << isSelectingTab, browser, switchPc, promptVars, restOfSwitch >>

\* ------------------------------------------------- the tab list and new tabs
snapshotVars == << html, domHtml, cookies, cookiesDir >>

restOfBrowser == << promptVars, endVars, attachVars, requestData, bufferVars, fileVars, sessionVars,
                    flowVars, envVars, statusVars, timerVars, errorVars, connVars,
                    pending, emitted, dumpsStarted, budget >>

\* GET /tabs: the tab list of the pages the browser has now
HttpTabs ==
  /\ Running
  /\ tabs' = [made |-> TRUE, raw |-> browserPages, list |-> getAllTabs(browser, browserPages)]
  /\ UNCHANGED << browserPages, newTabs, snapshotVars, restOfBrowser >>

\* browser.on('targetcreated') up to await target.page(): the browser has a new
\* target; only a target of type page is looked at
TargetCreated(type, p) ==
  /\ Started /\ Running /\ browser
  /\ IF type = "page"
     THEN /\ p \notin {browserPages[i] : i \in 1 .. Len(browserPages)}
          /\ Len(browserPages) < MaxPages
          /\ browserPages' = Append(browserPages, p)
          /\ newTabs' = [newTabs EXCEPT !.awaiting = @ \cup {p}]
     ELSE UNCHANGED << browserPages, newTabs >>
  /\ UNCHANGED << tabs, snapshotVars, restOfBrowser >>

\* the handler that also starts to monitor the new tab
NewTabLogged_Follow(p) ==
  /\ Running
  /\ p \in newTabs.awaiting
  /\ newTabs' = [awaiting |-> newTabs.awaiting \ {p}, logged |-> Append(newTabs.logged, p)]
  /\ SwitchTo(p)
  /\ UNCHANGED << browserPages, tabs, snapshotVars, promptVars, endVars, requestDetails, requestCounter, fileVars,
                  collectingPaused, isSelectingTab, browser,
                  flowVars, envVars, statusVars, timerVars, errorVars, connVars,
                  pending, emitted, dumpsStarted, budget >>

\* target.page() resolved: log.dim('New tab: ' + newPage.url()), nothing else
NewTabLogged(p) ==
  /\ Running
  /\ p \in newTabs.awaiting
  /\ newTabs' = [awaiting |-> newTabs.awaiting \ {p}, logged |-> Append(newTabs.logged, p)]
  /\ UNCHANGED << browserPages, tabs, snapshotVars, restOfBrowser >>

\* --------------------------------------------- the DOM and cookie snapshots
DOM_DUMP_MAX_BYTES == 2 * 1024 * 1024

\* Buffer.byteLength(html, 'utf8') of a document of code units of one width
byteLength(doc) == doc.len * doc.width

Min(a, b) == IF a <= b THEN a ELSE b

\* content.slice(0, n): the first n code units
slice(doc, n) == [doc EXCEPT !.len = Min(doc.len, n)]

\* the content dumpDomFromPage writes: beyond maxBytes the first maxBytes / 2 code
\* units and the TRUNCATED marker, else the document
domContent(doc) ==
  IF byteLength(doc) > DOM_DUMP_MAX_BYTES
  THEN [written |-> TRUE, len |-> slice(doc, DOM_DUMP_MAX_BYTES \div 2).len, marker |-> TRUE]
  ELSE [written |-> TRUE, len |-> doc.len, marker |-> FALSE]

restOfSnapshot == << browserPages, tabs, newTabs, restOfBrowser >>

\* dumpDomFromPage(page): no page, or page.evaluate rejects: nothing is written
DumpDom(ok) ==
  /\ Running
  /\ domHtml' = IF page # NoPage /\ ok THEN domContent(html) ELSE domHtml
  /\ UNCHANGED << html, cookies, cookiesDir, restOfSnapshot >>

\* cookie domains: a host, the same host with the leading dot, another host, an
\* IPv6 literal
Domains == {"a.example", ".a.example", "b.example", "[::1]"}

\* c.domain.replace(/^\./, '')
stripDot(d) == IF d = ".a.example" THEN "a.example" ELSE d

\* domain.replace(/[^a-zA-Z0-9.-]/g, '_') + '.json'
safeDomain(d) == IF d = "[::1]" THEN "___1_" ELSE d

cookiesByDomain(cs) == {stripDot(d) : d \in cs}

\* the directory after dumpCookiesFromPage: with no cookies it returns before
\* rmSync; otherwise the directory is removed and one file per domain written
cookieFiles(dir, cs) ==
  IF cs = {} THEN dir.files
  ELSE {[name |-> safeDomain(d), dump |-> dir.n + 1] : d \in cookiesByDomain(cs)}

\* dumpCookiesFromPage(page): no page, or the CDP session fails: nothing changes
DumpCookies(ok) ==
  /\ Running
  /\ cookiesDir.n < MaxDumps
  /\ cookiesDir' = IF page # NoPage /\ ok
                   THEN [n |-> cookiesDir.n + 1, ran |-> TRUE,
                         files |-> cookieFiles(cookiesDir, cookies)]
                   ELSE [cookiesDir EXCEPT !.n = @ + 1, !.ran = FALSE]
  /\ UNCHANGED << html, domHtml, cookies, restOfSnapshot >>

\* the pages of the browser set and delete cookies
SetCookies(cs) ==
  /\ Running
  /\ cs # cookies
  /\ cookies' = cs
  /\ UNCHANGED << html, domHtml, cookiesDir, restOfSnapshot >>

\* -------------------------------------------------------------------- shutdown
restOfCleanup == << page, collectingPaused, isSelectingTab, bufferVars, fileVars, pending,
                    dumps, switchPc, httpSwitch, envVars, emitted, dumpsStarted, budget, browserVars, promptVars,
                    statusVars, errorVars, connVars >>

\* SIGINT, SIGTERM, Ctrl+C, q: (0, FALSE); k: (0, TRUE); hard timeout, uncaught
\* exception, unhandled rejection: (1, FALSE)
Triggers == { [code |-> 0, closeBrowser |-> FALSE],
              [code |-> 0, closeBrowser |-> TRUE],
              [code |-> 1, closeBrowser |-> FALSE] }

\* cleanup(code, closeBrowser) whose every call runs the body
cleanup_NoGuard(args) ==
  /\ Started /\ Running
  /\ cleanupDone' = TRUE
  /\ cleanupArgs' = args
  /\ cleanupPc' = "http"
  /\ cleanupRuns' = cleanupRuns + 1
  /\ UNCHANGED << attachVars, requestData, browser, outcome, restOfCleanup >>

\* cleanup(code, closeBrowser) up to await httpServer.close: a call that finds
\* cleanupDone set returns at once
cleanup(args) ==
  /\ Started /\ Running
  /\ IF cleanupDone
     THEN UNCHANGED << cleanupDone, cleanupArgs, cleanupPc, cleanupRuns >>
     ELSE /\ cleanupDone' = TRUE
          /\ cleanupArgs' = args
          /\ cleanupPc' = "http"
          /\ cleanupRuns' = cleanupRuns + 1
  /\ UNCHANGED << attachVars, requestData, browser, outcome, restOfCleanup >>

\* process.on('SIGINT') and process.on('SIGTERM'): cleanup(0, false)
Signal(sig) ==
  /\ sig \in {"SIGINT", "SIGTERM"}
  /\ cleanup([code |-> 0, closeBrowser |-> FALSE])
  /\ UNCHANGED timer

\* keyboard Ctrl+C: cleanup(0), also while a tab is being selected
KeyCtrlC ==
  /\ cleanup([code |-> 0, closeBrowser |-> FALSE])
  /\ UNCHANGED timer

\* keyboard q: cleanup(0, false)
KeyQ ==
  /\ Pressed("q")
  /\ cleanup([code |-> 0, closeBrowser |-> FALSE])
  /\ UNCHANGED timer

\* keyboard k: cleanup(0, true)
KeyK ==
  /\ Pressed("k")
  /\ cleanup([code |-> 0, closeBrowser |-> TRUE])
  /\ UNCHANGED timer

\* process.on('uncaughtException') and process.on('unhandledRejection') for an error
\* that is not a closed navigation context: cleanup(1)
FatalError(event) ==
  /\ event \in {"uncaughtException", "unhandledRejection"}
  /\ cleanup([code |-> 1, closeBrowser |-> FALSE])
  /\ UNCHANGED timer

\* the timer of the hard timeout fires: cleanup(1)
HardTimeout ==
  /\ timer = "armed"
  /\ timer' = "fired"
  /\ cleanup([code |-> 1, closeBrowser |-> FALSE])

\* closeBrowserFn that closes the browser whatever the choice was
CleanupCloseBrowser_AlwaysClose ==
  /\ cleanupPc = "http"
  /\ cleanupActivePageListeners
  /\ browser' = FALSE
  /\ outcome' = IF browser THEN [outcome EXCEPT !.browser = "closed"] ELSE outcome
  /\ cleanupPc' = "browser"
  /\ UNCHANGED << cleanupDone, cleanupArgs, restOfCleanup, timerVars >>

\* the server closed: closeBrowserFn detaches the listeners, then closes the browser
\* (closeBrowser) or only disconnects from it
CleanupCloseBrowser ==
  /\ cleanupPc = "http"
  /\ cleanupActivePageListeners
  /\ browser' = FALSE
  /\ outcome' = IF browser
                THEN [outcome EXCEPT
                       !.browser = IF cleanupArgs.closeBrowser THEN "closed" ELSE "disconnected"]
                ELSE outcome
  /\ cleanupPc' = "browser"
  /\ UNCHANGED << cleanupDone, cleanupArgs, restOfCleanup, timerVars >>

\* afterCleanup, process.exit(code)
CleanupExit ==
  /\ cleanupPc = "browser"
  /\ cleanupPc' = "exited"
  /\ outcome' = [outcome EXCEPT !.exited = TRUE, !.code = cleanupArgs.code]
  /\ UNCHANGED << attachVars, requestData, browser, cleanupDone, cleanupArgs, restOfCleanup,
                  timerVars >>

\* --------------------------------------------- exceptions in capture handlers
\* The message of an exception, as the phrases it contains.
Messages == { << "Execution context was destroyed" >>,
              << "Protocol error", "Target closed" >>,
              << "ENOSPC", "no space left on device" >>,
              << >> }

StalePhrases == {"Execution context was destroyed", "Target closed", "Protocol error"}

\* /Execution context was destroyed|Target closed|Protocol error/.test(msg)
TestStale(msg) == \E i \in 1 .. Len(msg) : msg[i] \in StalePhrases

\* isContextDestroyedError that matches no message
isContextDestroyedError_Never(e) == FALSE

isContextDestroyedError(e) == TestStale(e)

\* cleanup(1) as the error handlers of the process call it, up to its first await
cleanupCall(args) ==
  IF cleanupDone
  THEN UNCHANGED << cleanupDone, cleanupArgs, cleanupPc, cleanupRuns >>
  ELSE /\ cleanupDone' = TRUE
       /\ cleanupArgs' = args
       /\ cleanupPc' = "http"
       /\ cleanupRuns' = cleanupRuns + 1

\* catch (e): the record of the exceptions raised so far, with e of the page event ev.
\* stale: the event of the last stale-context exception; fatal: the event of the last
\* other exception; late: cleanup had already started when the first such was raised.
Caught(ev, e) ==
  IF TestStale(e)
  THEN [thrown EXCEPT !.stale = ev]
  ELSE [thrown EXCEPT !.fatal = ev,
                      !.late = IF thrown.fatal = 0 THEN cleanupDone ELSE @]

\* process.on('uncaughtException') / process.on('unhandledRejection') for the
\* exception e of the page event ev that a capture handler let through
onProcessError(ev, e) ==
  /\ thrown' = [Caught(ev, e) EXCEPT !.propagated = TRUE]
  /\ IF TestStale(e)
     THEN UNCHANGED << cleanupDone, cleanupArgs, cleanupPc, cleanupRuns >>
     ELSE cleanupCall([code |-> 1, closeBrowser |-> FALSE])

\* the catch of a handler that swallows every exception
HandlerCatch_SwallowAll(ev, e) ==
  /\ thrown' = Caught(ev, e)
  /\ UNCHANGED << cleanupDone, cleanupArgs, cleanupPc, cleanupRuns >>

\* catch (e) { if (isContextDestroyedError(e)) return; throw e; } of a handler whose
\* caller (the event emitter) handles nothing: what it rethrows reaches the process
HandlerCatch(ev, e) ==
  IF isContextDestroyedError(e)
  THEN /\ thrown' = Caught(ev, e)
       /\ UNCHANGED << cleanupDone, cleanupArgs, cleanupPc, cleanupRuns >>
  ELSE onProcessError(ev, e)

restOfThrow == << attachVars, sessionVars, fileVars, dumps, switchPc, httpSwitch,
                  dumpsStarted, budget, browserVars, promptVars, endVars, statusVars, timer, connVars >>

\* a handler past its pause gate throws at its first call on the event object
\* (msg.type(), error.message, request.url(), response.url()): nothing is recorded
ThrowAtEntry(e) ==
  /\ ~collectingPaused
  /\ HandlerCatch(Tag, e)
  /\ UNCHANGED << consoleBuffer, networkBuffer, requestDetails, requestCounter,
                  requestData, pending >>

EmitConsoleThrows(p, e) ==
  /\ CanEmit
  /\ Hear(p) # {}
  /\ Emitted
  /\ ThrowAtEntry(e)
  /\ UNCHANGED << restOfThrow, envVars >>

EmitPageErrorThrows(p, e) ==
  /\ CanEmit
  /\ Hear(p) # {}
  /\ Emitted
  /\ ThrowAtEntry(e)
  /\ UNCHANGED << restOfThrow, envVars >>

EmitRequestThrows(p, r, e) ==
  /\ CanEmit
  /\ r \in NextReq
  /\ Hear(p) # {}
  /\ Emitted
  /\ reqPhase' = [reqPhase EXCEPT ![r] = "sent"]
  /\ reqOwner' = [reqOwner EXCEPT ![r] = p]
  /\ ThrowAtEntry(e)
  /\ UNCHANGED restOfThrow

EmitResponseThrows(r, e) ==
  /\ CanEmit
  /\ reqPhase[r] = "sent"
  /\ Hear(reqOwner[r]) # {}
  /\ Emitted
  /\ reqPhase' = [reqPhase EXCEPT ![r] = "responded"]
  /\ ThrowAtEntry(e)
  /\ UNCHANGED << restOfThrow, reqOwner >>

EmitRequestFailedThrows(r, e) ==
  /\ CanEmit
  /\ reqPhase[r] \in {"sent", "responded"}
  /\ Hear(reqOwner[r]) # {}
  /\ Emitted
  /\ reqPhase' = [reqPhase EXCEPT ![r] = "closed"]
  /\ ThrowAtEntry(e)
  /\ UNCHANGED << restOfThrow, reqOwner >>

\* a suspended handler continues and throws in its continuation (shouldIgnore, isHmr
\* or logConsole of onConsole; statusText(), updateRequestDetail or logNetwork of
\* onResponse) before it has recorded anything
ResumeThrows(h, e) ==
  /\ Running
  /\ h \in pending
  /\ pending' = pending \ {h}
  /\ HandlerCatch(h.ev, e)
  /\ UNCHANGED << consoleBuffer, networkBuffer, requestDetails, requestCounter, requestData >>
  /\ UNCHANGED << restOfThrow, envVars, emitted >>

Throws ==
  \/ \E p \in Pages, e \in Messages : EmitConsoleThrows(p, e)
  \/ \E p \in Pages, e \in Messages : EmitPageErrorThrows(p, e)
  \/ \E p \in Pages, r \in Reqs, e \in Messages : EmitRequestThrows(p, r, e)
  \/ \E r \in Reqs, e \in Messages : EmitResponseThrows(r, e)
  \/ \E r \in Reqs, e \in Messages : EmitRequestFailedThrows(r, e)
  \/ \E h \in pending, e \in Messages : ResumeThrows(h, e)

\* ------------------------------------------------------------------------ dump
EventsOf(buf) == {buf[i].ev : i \in 1 .. Len(buf)} \ {0}

restOfDump == << attachVars, sessionVars, requestData, requestCounter, pending, switchPc, budget, browserVars, promptVars, endVars,
                 statusVars, timerVars, errorVars, connVars,
                 httpSwitch, cleanupDone, cleanupPc, cleanupArgs, envVars, emitted >>

\* dumpBuffersToFiles up to the first collaborator: the three synchronous writes.
\* surface is "key" (d) or "http"; both pass the three collaborators of the page.
\* dumpBuffersToFiles that clears the buffers as soon as the files are written
DumpStart_ClearsEarly(surface) ==
  /\ Started /\ Running
  /\ surface = "key" => Pressed("d")
  /\ \A d \in dumps : d.surface # surface
  /\ dumpsStarted < budget.dumps
  /\ dumpsStarted' = dumpsStarted + 1
  /\ consoleLog' = consoleBuffer
  /\ networkLog' = networkBuffer
  /\ networkDir' = requestDetails
  /\ dumps' = dumps \cup {[surface |-> surface, pc |-> "cookies", failed |-> {}]}
  /\ consoleBuffer' = << >>
  /\ networkBuffer' = << >>
  /\ requestDetails' = {}
  /\ UNCHANGED restOfDump

\* dumpBuffersToFiles that leaves alone the artifact of an empty buffer
DumpStart_SkipEmpty(surface) ==
  /\ Started /\ Running
  /\ surface = "key" => Pressed("d")
  /\ \A d \in dumps : d.surface # surface
  /\ dumpsStarted < budget.dumps
  /\ dumpsStarted' = dumpsStarted + 1
  /\ consoleLog' = (IF consoleBuffer = << >> THEN consoleLog ELSE consoleBuffer)
  /\ networkLog' = (IF networkBuffer = << >> THEN networkLog ELSE networkBuffer)
  /\ networkDir' = (IF requestDetails = {} THEN networkDir ELSE requestDetails)
  /\ dumps' = dumps \cup {[surface |-> surface, pc |-> "cookies", failed |-> {}]}
  /\ UNCHANGED << consoleBuffer, networkBuffer, requestDetails, restOfDump >>

\* a dump whose last step leaves the request details in memory
DumpStep_KeepDetails(d) ==
  /\ Running
  /\ d \in dumps
  /\ IF d.pc = "screenshot"
     THEN /\ dumps' = dumps \ {d}
          /\ consoleBuffer' = << >>
          /\ networkBuffer' = << >>
          /\ UNCHANGED requestDetails
     ELSE /\ dumps' = (dumps \ {d}) \cup
                      {[d EXCEPT !.pc = IF d.pc = "cookies" THEN "dom" ELSE "screenshot"]}
          /\ UNCHANGED << consoleBuffer, networkBuffer, requestDetails >>
  /\ UNCHANGED << fileVars, dumpsStarted, restOfDump >>

DumpStart(surface) ==
  /\ Started /\ Running
  /\ surface = "key" => Pressed("d")
  /\ \A d \in dumps : d.surface # surface
  /\ dumpsStarted < budget.dumps
  /\ dumpsStarted' = dumpsStarted + 1
  /\ consoleLog' = consoleBuffer
  /\ networkLog' = networkBuffer
  /\ networkDir' = requestDetails
  /\ dumps' = dumps \cup {[surface |-> surface, pc |-> "cookies", failed |-> {}]}
  /\ UNCHANGED << consoleBuffer, networkBuffer, requestDetails, restOfDump >>

clearAllBuffers ==
  /\ consoleBuffer' = << >>
  /\ networkBuffer' = << >>
  /\ requestDetails' = {}

\* the events whose buffered lines or details are not in the artifacts on disk:
\* what a clearAllBuffers at this moment removes without any dump having written it
Unwritten ==
  ((EventsOf(consoleBuffer) \ EventsOf(consoleLog))
     \cup (EventsOf(networkBuffer) \ EventsOf(networkLog)))
    \cup {x.ev : x \in requestDetails \ networkDir}

\* a collaborator settled (resolved, or failed and logged): the next one starts, and
\* after the screenshot the buffers are cleared
DumpStep(d) ==
  /\ Running
  /\ d \in dumps
  /\ IF d.pc = "screenshot"
     THEN /\ dumps' = dumps \ {d}
          /\ clearAllBuffers
     ELSE /\ dumps' = (dumps \ {d}) \cup
                      {[d EXCEPT !.pc = IF d.pc = "cookies" THEN "dom" ELSE "screenshot"]}
          /\ UNCHANGED << consoleBuffer, networkBuffer, requestDetails >>
  /\ UNCHANGED << fileVars, dumpsStarted, restOfDump >>

\* a collaborator caught its own error and logged it (dumpCookiesFromPage 117-119,
\* dumpDomFromPage 146-148, dumpScreenshotFromPage 166-168): the dump goes on
DumpStepFails(d) ==
  /\ Running
  /\ d \in dumps
  /\ IF d.pc = "screenshot"
     THEN /\ dumps' = dumps \ {d}
          /\ clearAllBuffers
     ELSE /\ dumps' = (dumps \ {d}) \cup
                      {[d EXCEPT !.pc = IF d.pc = "cookies" THEN "dom" ELSE "screenshot",
                                 !.failed = d.failed \cup {d.pc}]}
          /\ UNCHANGED << consoleBuffer, networkBuffer, requestDetails >>
  /\ UNCHANGED << fileVars, dumpsStarted, restOfDump >>

\* what a writeFileSync that threw has left of the file: untouched, or opened and
\* truncated
AfterFailedWrite(file, empty) == {file, empty}

\* dumpBuffersToFiles in which fs.writeFileSync throws at the console log, at the
\* network log or at the first per-request document: nothing catches it, the promise
\* of the dump rejects, and neither the collaborators nor clearAllBuffers are reached
DumpStartFails(surface, at) ==
  /\ Started /\ Running
  /\ surface = "key" => Pressed("d")
  /\ \A d \in dumps : d.surface # surface
  /\ dumpsStarted < budget.dumps
  /\ dumpsStarted' = dumpsStarted + 1
  /\ CASE at = "console" ->
            /\ consoleLog' \in AfterFailedWrite(consoleLog, << >>)
            /\ UNCHANGED << networkLog, networkDir >>
       [] at = "network" ->
            /\ consoleLog' = consoleBuffer
            /\ networkLog' \in AfterFailedWrite(networkLog, << >>)
            /\ UNCHANGED networkDir
       [] at = "details" ->
            /\ requestDetails # {}
            /\ consoleLog' = consoleBuffer
            /\ networkLog' = networkBuffer
            /\ networkDir' = {}
  /\ UNCHANGED << dumps, consoleBuffer, networkBuffer, requestDetails, restOfDump >>

\* keyboard c: logBuffer.clearAllBuffers()
KeyC ==
  /\ Started /\ Running /\ Pressed("c")
  /\ consoleBuffer # << >> \/ networkBuffer # << >> \/ requestDetails # {}
  /\ clearAllBuffers
  /\ UNCHANGED << fileVars, dumps, dumpsStarted, restOfDump >>

\* --------------------------------------------------------------- specification
\* ---------------------------------------------------------------------- status
restOfStatus == << attachVars, sessionVars, bufferVars, fileVars, requestData, pending,
                   flowVars, envVars, emitted, dumpsStarted, budget, browserVars, promptVars, endVars, timerVars, errorVars, connVars >>

\* keyboard s up to await getStatusInfo()
KeyS ==
  /\ Started /\ Running /\ Pressed("s")
  /\ statusPc = "idle"
  /\ statusPc' = "info"
  /\ UNCHANGED << statusBlock, restOfStatus >>

\* getStatusInfo() settled: logBuffer.getStats(), printStatusBlock
StatusReport ==
  /\ Running
  /\ statusPc = "info"
  /\ statusPc' = "idle"
  /\ statusBlock' = [shown |-> TRUE, stats |-> getStats, at |-> emitted]
  /\ UNCHANGED restOfStatus

\* request surface: the status query answers with logBuffer.getStats()
HttpStatus ==
  /\ Started /\ Running
  /\ statusBlock' = [shown |-> TRUE, stats |-> getStats, at |-> emitted]
  /\ UNCHANGED << statusPc, restOfStatus >>

\* ------------------------------------------------ port proxy (netsh portproxy)
MaxRules == 2   \* forwarding rules Windows holds when a run of SpecPortProxy starts
MaxCalls == 3   \* port-proxy operations in one run of SpecPortProxy

\* debug ports: the default, the next free one, and one whose digits contain the default
Ports == {9222, 9223, 19222}
Types == {"v4tov4", "v4tov6"}

RuleUniverse == [type : Types, listen : Ports, connect : Ports]

\* netsh keeps one rule per type and listen port
WellKeyed(rules) ==
  \A r \in rules, x \in rules : (r.type = x.type /\ r.listen = x.listen) => r = x

RulesOn(rules, port) == {r \in rules : r.listen = port}

\* String(port): the decimal digits
RECURSIVE String(_)
String(n) == IF n < 10 THEN << n >> ELSE Append(String(n \div 10), n % 10)

\* text.includes(s)
includes(text, s) ==
  /\ Len(s) <= Len(text)
  /\ \E i \in 1 .. (Len(text) + 1) - Len(s) : SubSeq(text, i, (i + Len(s)) - 1) = s

\* the numbers in the table `netsh interface portproxy show <type>` prints: per rule the
\* listen address 0.0.0.0, the listen port, the connect address and the connect port
showPortProxy(rules, t) ==
  UNION { { << 0 >>, String(r.listen), String(r.connect) }
            \cup (IF t = "v4tov4" THEN { << 1, 2, 7 >>, << 0 >>, << 1 >> } ELSE { << 1 >> })
          : r \in {x \in rules : x.type = t} }

\* portProxyV4.includes(String(port))
Listed(rules, t, port) == \E tok \in showPortProxy(rules, t) : includes(tok, String(port))

Cmd(op, t, port, ok) == [op |-> op, type |-> t, port |-> port, ok |-> ok]

\* netsh interface portproxy delete <type> listenport=<port> listenaddress=0.0.0.0:
\* fails without admin rights and when there is no such rule
netshDelete(rules, t, port) ==
  LET ok == admin /\ \E r \in rules : r.type = t /\ r.listen = port
  IN  [rules |-> IF ok THEN {r \in rules : ~(r.type = t /\ r.listen = port)} ELSE rules,
       cmd   |-> Cmd("delete", t, port, ok)]

\* netsh interface portproxy add <type> listenport=<port> ... connectport=<port>:
\* fails without admin rights, replaces the rule of that type on that port
netshAdd(rules, t, port) ==
  [rules |-> IF admin
             THEN {r \in rules : ~(r.type = t /\ r.listen = port)}
                    \cup {[type |-> t, listen |-> port, connect |-> port]}
             ELSE rules,
   cmd   |-> Cmd("add", t, port, admin)]

\* the result of a port-proxy operation: the rules after it, what it returns, and the
\* add/delete commands it ran
removePortProxyIfExists(rules, port) ==
  LET found4 == Listed(rules, "v4tov4", port)
      found6 == Listed(rules, "v4tov6", port)
      d4 == netshDelete(rules, "v4tov4", port)
      d6 == netshDelete(rules, "v4tov6", port)
      c4 == IF found4 THEN << d4.cmd >> ELSE << >>
      c6 == IF found6 THEN << d6.cmd >> ELSE << >>
  IN  IF found4 /\ d4.cmd.ok
      THEN [rules |-> d4.rules, ret |-> TRUE, cmds |-> c4]
      ELSE IF found6 /\ d6.cmd.ok
           THEN [rules |-> d6.rules, ret |-> TRUE, cmds |-> c4 \o c6]
           ELSE [rules |-> rules, ret |-> FALSE, cmds |-> c4 \o c6]

setupPortProxy(rules, port, proxyType) ==
  LET d4 == netshDelete(rules, "v4tov4", port)
      d6 == netshDelete(d4.rules, "v4tov6", port)
      a  == netshAdd(d6.rules, proxyType, port)
  IN  [rules |-> a.rules, ret |-> a.cmd.ok, cmds |-> << d4.cmd, d6.cmd, a.cmd >>]

\* open mode, after Start-Process: the same three commands, inline
launchPortProxy(rules, port, proxyType) ==
  LET d4 == netshDelete(rules, "v4tov4", port)
      d6 == netshDelete(d4.rules, "v4tov6", port)
      a  == netshAdd(d6.rules, proxyType, port)
  IN  [rules |-> a.rules, ret |-> a.cmd.ok, cmds |-> << d4.cmd, d6.cmd, a.cmd >>]

\* open mode, a running Chrome that does not answer: when the v4tov4 table does not
\* show the port and the operator agrees, one add command
existingPortProxy(rules, port) ==
  LET a == netshAdd(rules, "v4tov4", port)
  IN  [rules |-> a.rules, ret |-> a.cmd.ok, cmds |-> << a.cmd >>]

\* the automatic fix: netsh.exe interface portproxy delete v4tov4 listenport=fixPort
fixPortProxy(rules, fixPort) ==
  LET d == netshDelete(rules, "v4tov4", fixPort)
  IN  [rules |-> d.rules, ret |-> d.cmd.ok, cmds |-> << d.cmd >>]

NoCall == [n |-> 0, fn |-> "none", port |-> 0, ret |-> FALSE, cmds |-> << >>]

\* run operation fn with result res: Windows holds res.rules, the call is recorded
Call(fn, port, res) ==
  /\ portProxy' = res.rules
  /\ lastCall' = [n |-> lastCall.n + 1, fn |-> fn, port |-> port, ret |-> res.ret,
                  cmds |-> res.cmds]

\* the port-proxy operations, called in any order
restOfConnect == << attachVars, requestData, bufferVars, fileVars, page, collectingPaused,
                    isSelectingTab, flowVars, envVars, statusVars, timerVars, errorVars,
                    pending, emitted, dumpsStarted, budget, browserVars, promptVars, endVars >>

restOfPortProxy == << intent, connPc, actualPort, attempts, delays, diagnosis, confirmed,
                      declined, exitCode, rounds, chrome, admin, browser, restOfConnect >>

RemovePortProxyIfExists(port) ==
  /\ lastCall.n < MaxCalls
  /\ Call("removePortProxyIfExists", port, removePortProxyIfExists(portProxy, port))
  /\ UNCHANGED restOfPortProxy

SetupPortProxy(port, proxyType) ==
  /\ lastCall.n < MaxCalls
  /\ Call("setupPortProxy", port, setupPortProxy(portProxy, port, proxyType))
  /\ UNCHANGED restOfPortProxy

LaunchPortProxy(port, proxyType) ==
  /\ lastCall.n < MaxCalls
  /\ Call("launch", port, launchPortProxy(portProxy, port, proxyType))
  /\ UNCHANGED restOfPortProxy

ExistingPortProxy(port) ==
  /\ lastCall.n < MaxCalls
  /\ ~Listed(portProxy, "v4tov4", port)
  /\ Call("existing", port, existingPortProxy(portProxy, port))
  /\ UNCHANGED restOfPortProxy

FixPortProxy(port) ==
  /\ lastCall.n < MaxCalls
  /\ Call("fix", port, fixPortProxy(portProxy, port))
  /\ UNCHANGED restOfPortProxy

\* ------------------------------------------------------ the connection manager
MAX_RETRIES == 5   \* handshake attempts of open mode on WSL
MaxRounds   == 2   \* wait-for-Chrome rounds that are counted; later rounds leave the count
ConnRules   == 1   \* forwarding rules Windows holds when a run of the manager starts

Intents == { i \in [mode : {"open", "join"}, wsl : BOOLEAN, hint : BOOLEAN] :
               i.mode = "open" => ~i.hint }

Diagnoses == {"conflict", "nothing", "refused"}

\* the prompts of askYesNo
Questions == {"proxy", "launch", "fix"}

\* "aborted": the operator ended the run (SIGINT at a wait, q in the selection)
\* pcs at which the mode function waits for the operator
Waits == {"ask-proxy", "ask-launch", "ask-fix", "join-ask-fix", "wait-key", "wait-repoll",
          "select"}

Final == {"connected", "exited", "aborted"}

exit(code) == connPc' = "exited" /\ exitCode' = code

killPuppeteerMonitorChromes == [chrome EXCEPT !.killed = @ + 1]

NextPort(p) == IF p = 9222 THEN 9223 ELSE 9222

restOfFlow == << intent, admin, browser, restOfConnect >>

\* the control channel opens with the handshake that succeeds
restOfHandshake == << intent, admin, restOfConnect >>

\* --- runOpenMode
OpenNative(ok) ==
  /\ connPc = "idle" /\ intent.mode = "open" /\ ~intent.wsl
  /\ attempts' = attempts + 1
  /\ browser' = ok
  /\ IF ok THEN connPc' = "connected" /\ chrome' = [chrome EXCEPT !.spawned = @ + 1]
                /\ UNCHANGED exitCode
           ELSE exit(1) /\ UNCHANGED chrome
  /\ UNCHANGED << actualPort, delays, diagnosis, confirmed, declined, rounds, portProxy,
                  lastCall, restOfHandshake >>

\* detectWindowsChromeCanaryPath, killPuppeteerMonitorChromes, scanChromeInstances
OpenStart(canary, existing) ==
  /\ connPc = "idle" /\ intent.mode = "open" /\ intent.wsl
  /\ IF ~canary
     THEN exit(1) /\ UNCHANGED << chrome, actualPort >>
     ELSE /\ chrome' = killPuppeteerMonitorChromes
          /\ UNCHANGED exitCode
          /\ IF existing = 0
             THEN connPc' = "launch" /\ UNCHANGED actualPort
             ELSE connPc' = "probe" /\ actualPort' = existing
  /\ UNCHANGED << attempts, delays, diagnosis, confirmed, declined, rounds, portProxy,
                  lastCall, restOfFlow >>

\* fetch /json/version of the running Chrome; when it fails, the v4tov4 table is read
OpenProbe(reachable) ==
  /\ connPc = "probe"
  /\ connPc' = IF reachable THEN "retry"
               ELSE IF Listed(portProxy, "v4tov4", actualPort) THEN "launch"
               ELSE "ask-proxy"
  /\ UNCHANGED << actualPort, attempts, delays, diagnosis, confirmed, declined, exitCode,
                  rounds, chrome, portProxy, lastCall, restOfFlow >>

\* askYesNo('Try to set up port proxy now?')
OpenAskProxy(yes) ==
  /\ connPc = "ask-proxy"
  /\ IF yes
     THEN /\ confirmed' = confirmed \cup {"proxy"}
          /\ Call("existing", actualPort, existingPortProxy(portProxy, actualPort))
          /\ connPc' = IF admin THEN "probe-again" ELSE "launch"
          /\ UNCHANGED declined
     ELSE /\ declined' = declined \cup {"proxy"}
          /\ connPc' = "launch"
          /\ UNCHANGED << confirmed, portProxy, lastCall >>
  /\ UNCHANGED << actualPort, attempts, delays, diagnosis, exitCode, rounds, chrome,
                  restOfFlow >>

OpenProbeAgain(reachable) ==
  /\ connPc = "probe-again"
  /\ connPc' = IF reachable THEN "retry" ELSE "launch"
  /\ UNCHANGED << actualPort, attempts, delays, diagnosis, confirmed, declined, exitCode,
                  rounds, chrome, portProxy, lastCall, restOfFlow >>

\* findAvailablePort, Start-Process, then the port proxy for the new Chrome
OpenLaunch(port, started, proxyType) ==
  /\ connPc = "launch"
  /\ actualPort' = port
  /\ IF started
     THEN /\ chrome' = [chrome EXCEPT !.spawned = @ + 1]
          /\ Call("launch", port, launchPortProxy(portProxy, port, proxyType))
          /\ connPc' = "retry"
          /\ UNCHANGED exitCode
     ELSE exit(1) /\ UNCHANGED << chrome, portProxy, lastCall >>
  /\ UNCHANGED << attempts, delays, diagnosis, confirmed, declined, rounds, restOfFlow >>

\* the head of the retry loop: await setTimeout(RETRY_DELAY)
RetryDelay ==
  /\ connPc = "retry"
  /\ delays' = delays + 1
  /\ connPc' = "handshake"
  /\ UNCHANGED << actualPort, attempts, diagnosis, confirmed, declined, exitCode, rounds,
                  chrome, portProxy, lastCall, restOfFlow >>

\* fetch /json/version and puppeteer.connect; the loop ends at the first success and
\* after MAX_RETRIES failures
Handshake_NoLimit(ok) ==
  /\ connPc = "handshake"
  /\ attempts' = attempts + 1
  /\ browser' = ok
  /\ connPc' = IF ok THEN "connected" ELSE "retry"
  /\ UNCHANGED << actualPort, delays, diagnosis, confirmed, declined, exitCode, rounds,
                  chrome, portProxy, lastCall, restOfHandshake >>

Handshake(ok) ==
  /\ connPc = "handshake"
  /\ attempts' = attempts + 1
  /\ browser' = ok
  /\ connPc' = IF ok THEN "connected"
               ELSE IF attempts + 1 < MAX_RETRIES THEN "retry" ELSE "diagnose"
  /\ UNCHANGED << actualPort, delays, diagnosis, confirmed, declined, exitCode, rounds,
                  chrome, portProxy, lastCall, restOfHandshake >>

\* runWslDiagnostics: reads, classifies, and may name the port of the conflicting rule
runWslDiagnostics(result, port) ==
  /\ diagnosis' = [runs |-> diagnosis.runs + 1, result |-> result, port |-> port]
  /\ UNCHANGED << portProxy, lastCall, chrome >>

Diagnose_Retry(result, port) ==
  /\ connPc = "diagnose"
  /\ runWslDiagnostics(result, port)
  /\ connPc' = IF result = "conflict" THEN "ask-fix" ELSE "retry"
  /\ UNCHANGED << exitCode, actualPort, attempts, delays, confirmed, declined, rounds,
                  restOfFlow >>

Diagnose(result, port) ==
  /\ connPc = "diagnose"
  /\ runWslDiagnostics(result, port)
  /\ IF result = "conflict" THEN connPc' = "ask-fix" /\ UNCHANGED exitCode ELSE exit(1)
  /\ UNCHANGED << actualPort, attempts, delays, confirmed, declined, rounds, restOfFlow >>

\* if (shouldFix): delete the v4tov4 rule, stop Chrome, process.exit(0)
applyFix ==
  /\ Call("fix", diagnosis.port, fixPortProxy(portProxy, diagnosis.port))
  /\ chrome' = killPuppeteerMonitorChromes
  /\ exit(0)

AskFix_AlwaysFix(yes) ==
  /\ connPc = "ask-fix"
  /\ IF yes
     THEN confirmed' = confirmed \cup {"fix"} /\ applyFix /\ UNCHANGED declined
     ELSE declined' = declined \cup {"fix"} /\ applyFix /\ UNCHANGED confirmed
  /\ UNCHANGED << actualPort, attempts, delays, diagnosis, rounds, restOfFlow >>

\* askYesNo('Do you want me to fix this automatically?')
AskFix(yes) ==
  /\ connPc = "ask-fix"
  /\ IF yes
     THEN confirmed' = confirmed \cup {"fix"} /\ applyFix /\ UNCHANGED declined
     ELSE /\ declined' = declined \cup {"fix"}
          /\ exit(1)
          /\ UNCHANGED << confirmed, portProxy, lastCall, chrome >>
  /\ UNCHANGED << actualPort, attempts, delays, diagnosis, rounds, restOfFlow >>

\* --- runJoinMode
JoinStart ==
  /\ connPc = "idle" /\ intent.mode = "join"
  /\ IF intent.wsl THEN connPc' = "scan" /\ UNCHANGED actualPort
     ELSE IF intent.hint THEN connPc' = "connect" /\ actualPort' = 9222
     ELSE connPc' = "poll" /\ UNCHANGED actualPort
  /\ UNCHANGED << attempts, delays, diagnosis, confirmed, declined, exitCode, rounds,
                  chrome, portProxy, lastCall, restOfFlow >>

\* WSL: findProjectChrome; a Chrome of this project, or Canary to launch, or neither
JoinScan(found, canary, port) ==
  /\ connPc = "scan"
  /\ actualPort' = port
  /\ IF found THEN connPc' = "join-probe" /\ UNCHANGED exitCode
     ELSE IF canary THEN connPc' = "ask-launch" /\ UNCHANGED exitCode
     ELSE exit(1)
  /\ UNCHANGED << attempts, delays, diagnosis, confirmed, declined, rounds, chrome,
                  portProxy, lastCall, restOfFlow >>

showWait ==
  /\ rounds' = IF rounds < MaxRounds THEN rounds + 1 ELSE rounds

JoinProbe(reachable) ==
  /\ connPc = "join-probe"
  /\ IF reachable THEN connPc' = "connect" /\ UNCHANGED rounds
     ELSE connPc' = "wait-key" /\ showWait
  /\ UNCHANGED << actualPort, attempts, delays, diagnosis, confirmed, declined, exitCode,
                  chrome, portProxy, lastCall, restOfFlow >>

\* askYesNo('Launch Chrome Canary for this project?')
JoinAskLaunch(yes) ==
  /\ connPc = "ask-launch"
  /\ IF yes THEN confirmed' = confirmed \cup {"launch"} /\ connPc' = "unblock"
                 /\ UNCHANGED declined
     ELSE declined' = declined \cup {"launch"} /\ connPc' = "connect" /\ UNCHANGED confirmed
  /\ UNCHANGED << actualPort, attempts, delays, diagnosis, exitCode, rounds, chrome,
                  portProxy, lastCall, restOfFlow >>

\* if (isPortBlocked(actualPort)) removePortProxyIfExists(actualPort), and when the port
\* stays blocked the next free port
JoinUnblock(blocked, still) ==
  /\ connPc = "unblock"
  /\ IF blocked
     THEN LET res == removePortProxyIfExists(portProxy, actualPort)
          IN  /\ Call("removePortProxyIfExists", actualPort, res)
              /\ IF ~res.ret /\ still
                 THEN actualPort' = NextPort(actualPort) /\ connPc' = "unblock-next"
                 ELSE UNCHANGED actualPort /\ connPc' = "start-chrome"
     ELSE connPc' = "start-chrome" /\ UNCHANGED << actualPort, portProxy, lastCall >>
  /\ UNCHANGED << attempts, delays, diagnosis, confirmed, declined, exitCode, rounds,
                  chrome, restOfFlow >>

JoinUnblockNext(blocked) ==
  /\ connPc = "unblock-next"
  /\ IF blocked
     THEN Call("removePortProxyIfExists", actualPort,
               removePortProxyIfExists(portProxy, actualPort))
     ELSE UNCHANGED << portProxy, lastCall >>
  /\ connPc' = "start-chrome"
  /\ UNCHANGED << actualPort, attempts, delays, diagnosis, confirmed, declined, exitCode,
                  rounds, chrome, restOfFlow >>

\* killPuppeteerMonitorChromes, startChromeOnWindows
JoinStartChrome(launched) ==
  /\ connPc = "start-chrome"
  /\ IF launched
     THEN /\ chrome' = [killPuppeteerMonitorChromes EXCEPT !.spawned = @ + 1]
          /\ connPc' = "connect"
          /\ UNCHANGED rounds
     ELSE /\ chrome' = killPuppeteerMonitorChromes
          /\ connPc' = "wait-key"
          /\ showWait
  /\ UNCHANGED << actualPort, attempts, delays, diagnosis, confirmed, declined, exitCode,
                  portProxy, lastCall, restOfFlow >>

\* WSL: the operator presses a key, the run goes on to connect
JoinKey ==
  /\ connPc = "wait-key"
  /\ connPc' = "connect"
  /\ UNCHANGED << actualPort, attempts, delays, diagnosis, confirmed, declined, exitCode,
                  rounds, chrome, portProxy, lastCall, restOfFlow >>

\* not WSL, no port given: getChromeInstances, and while there is none the wait table
JoinPoll(instances) ==
  /\ connPc = "poll"
  /\ IF instances = 0
       THEN connPc' = "wait-repoll" /\ showWait /\ UNCHANGED actualPort
     ELSE IF instances = 1
       THEN connPc' = "connect" /\ actualPort' = 9222 /\ UNCHANGED rounds
     ELSE connPc' = "select" /\ UNCHANGED << actualPort, rounds >>
  /\ UNCHANGED << attempts, delays, diagnosis, confirmed, declined, exitCode, chrome,
                  portProxy, lastCall, restOfFlow >>

JoinRepoll ==
  /\ connPc = "wait-repoll"
  /\ connPc' = "poll"
  /\ UNCHANGED << actualPort, attempts, delays, diagnosis, confirmed, declined, exitCode,
                  rounds, chrome, portProxy, lastCall, restOfFlow >>

\* askUserToSelectChromeInstance: a number, or q (0) to cancel; if (!actualPort)
\* process.exit(0): the operator ended the run
JoinSelect(port) ==
  /\ connPc = "select"
  /\ IF port = 0 THEN connPc' = "aborted" /\ exitCode' = 0 /\ UNCHANGED actualPort
     ELSE connPc' = "connect" /\ actualPort' = port /\ UNCHANGED exitCode
  /\ UNCHANGED << attempts, delays, diagnosis, confirmed, declined, rounds, chrome,
                  portProxy, lastCall, restOfFlow >>

\* puppeteer.connect, once; the catch block diagnoses a connection error on WSL
JoinConnect(ok, refused) ==
  /\ connPc = "connect"
  /\ attempts' = attempts + 1
  /\ browser' = ok
  /\ IF ok THEN connPc' = "connected" /\ UNCHANGED exitCode
     ELSE IF refused /\ intent.wsl THEN connPc' = "join-diagnose" /\ UNCHANGED exitCode
     ELSE exit(1)
  /\ UNCHANGED << actualPort, delays, diagnosis, confirmed, declined, rounds, chrome,
                  portProxy, lastCall, restOfHandshake >>

JoinDiagnose(result, port) ==
  /\ connPc = "join-diagnose"
  /\ runWslDiagnostics(result, port)
  /\ IF result = "conflict" THEN connPc' = "join-ask-fix" /\ UNCHANGED exitCode ELSE exit(1)
  /\ UNCHANGED << actualPort, attempts, delays, confirmed, declined, rounds, restOfFlow >>

JoinAskFix(yes) ==
  /\ connPc = "join-ask-fix"
  /\ IF yes
     THEN confirmed' = confirmed \cup {"fix"} /\ applyFix /\ UNCHANGED declined
     ELSE /\ declined' = declined \cup {"fix"}
          /\ exit(1)
          /\ UNCHANGED << confirmed, portProxy, lastCall, chrome >>
  /\ UNCHANGED << actualPort, attempts, delays, diagnosis, rounds, restOfFlow >>

\* SIGINT while the mode function waits for the operator: cleanup(0) with no browser
Abort ==
  /\ connPc \in Waits
  /\ connPc' = "aborted"
  /\ exitCode' = 0
  /\ UNCHANGED << actualPort, attempts, delays, diagnosis, confirmed, declined, rounds,
                  chrome, portProxy, lastCall, restOfFlow >>

\* the connection manager, from the intent to the connected browser or the exit
Open ==
  \/ \E ok \in BOOLEAN : OpenNative(ok)
  \/ \E canary \in BOOLEAN, existing \in {0, 9222} : OpenStart(canary, existing)
  \/ \E reachable \in BOOLEAN : OpenProbe(reachable)
  \/ \E yes \in BOOLEAN : OpenAskProxy(yes)
  \/ \E reachable \in BOOLEAN : OpenProbeAgain(reachable)
  \/ \E port \in {9222, 9223}, started \in BOOLEAN, proxyType \in Types :
       OpenLaunch(port, started, proxyType)
  \/ RetryDelay
  \/ \E ok \in BOOLEAN : Handshake(ok)
  \/ \E result \in Diagnoses, port \in Ports : Diagnose(result, port)
  \/ \E yes \in BOOLEAN : AskFix(yes)

Join ==
  \/ JoinStart
  \/ \E found \in BOOLEAN, canary \in BOOLEAN, port \in {9222, 9223} :
       JoinScan(found, canary, port)
  \/ \E reachable \in BOOLEAN : JoinProbe(reachable)
  \/ \E yes \in BOOLEAN : JoinAskLaunch(yes)
  \/ \E blocked \in BOOLEAN, still \in BOOLEAN : JoinUnblock(blocked, still)
  \/ \E blocked \in BOOLEAN : JoinUnblockNext(blocked)
  \/ \E launched \in BOOLEAN : JoinStartChrome(launched)
  \/ JoinKey
  \/ \E instances \in 0 .. 2 : JoinPoll(instances)
  \/ JoinRepoll
  \/ \E port \in {0, 9222, 9223} : JoinSelect(port)
  \/ \E ok \in BOOLEAN, refused \in BOOLEAN : JoinConnect(ok, refused)
  \/ \E result \in Diagnoses, port \in Ports : JoinDiagnose(result, port)
  \/ \E yes \in BOOLEAN : JoinAskFix(yes)

NextConnect == Open \/ Join \/ Abort

ConnStart(i, n) ==
  /\ intent = i
  /\ connPc = "idle"
  /\ actualPort = 0
  /\ attempts = 0
  /\ delays = 0
  /\ diagnosis = [runs |-> 0, result |-> "none", port |-> 0]
  /\ confirmed = {}
  /\ declined = {}
  /\ exitCode = 0
  /\ rounds = 0
  /\ chrome = [spawned |-> 0, killed |-> 0]
  /\ portProxy \in {s \in SUBSET RuleUniverse : Cardinality(s) <= n /\ WellKeyed(s)}
  /\ admin \in BOOLEAN
  /\ lastCall = NoCall
  /\ browser = FALSE

\* the state in which a session starts: open mode, not on WSL, puppeteer.launch succeeded
Established ==
  /\ intent = [mode |-> "open", wsl |-> FALSE, hint |-> FALSE]
  /\ connPc = "connected"
  /\ actualPort = 0
  /\ attempts = 1
  /\ delays = 0
  /\ diagnosis = [runs |-> 0, result |-> "none", port |-> 0]
  /\ confirmed = {}
  /\ declined = {}
  /\ exitCode = 0
  /\ rounds = 0
  /\ chrome = [spawned |-> 1, killed |-> 0]
  /\ portProxy = {}
  /\ admin = FALSE
  /\ lastCall = NoCall
  /\ browser = TRUE

InitSession(b) ==
  /\ budget = b
  /\ listeners = {}
  /\ activePageCleanup = Null
  /\ requestData = {}
  /\ attachCount = 0
  /\ detachCount = 0
  /\ page = NoPage
  /\ collectingPaused = FALSE
  /\ isSelectingTab = FALSE
  /\ offered = << >>
  /\ promptKeyCommand = "none"
  /\ laterSwitch = "idle"
  /\ consoleBuffer = << >>
  /\ networkBuffer = << >>
  /\ requestDetails = {}
  /\ requestCounter = 0
  /\ consoleLog = << >>
  /\ networkLog = << >>
  /\ networkDir = {}
  /\ pending = {}
  /\ dumps = {}
  /\ switchPc = "idle"
  /\ httpSwitch = {}
  /\ cleanupDone = FALSE
  /\ cleanupPc = "idle"
  /\ cleanupArgs = [code |-> 0, closeBrowser |-> FALSE]
  /\ cleanupRuns = 0
  /\ outcome = [browser |-> "open", exited |-> FALSE, code |-> 0]
  /\ timer = "armed"
  /\ statusPc = "idle"
  /\ statusBlock = [shown |-> FALSE, stats |-> getStats, at |-> 0]
  /\ thrown = [stale |-> 0, fatal |-> 0, late |-> FALSE, propagated |-> FALSE]
  /\ reqPhase = [r \in Reqs |-> "new"]
  /\ reqOwner = [r \in Reqs |-> NoPage]
  /\ emitted = 0
  /\ dumpsStarted = 0

\* the browser of a session shows the two user tabs; no tab list was asked for
NoNewTabs == [awaiting |-> {}, logged |-> << >>]

NoDomHtml    == [written |-> FALSE, len |-> 0, marker |-> FALSE]
NoCookiesDir == [n |-> 0, ran |-> FALSE, files |-> {}]

\* an empty document, no cookies, and nothing written by a dump
InitSnapshots ==
  /\ html = [len |-> 0, width |-> 1]
  /\ domHtml = NoDomHtml
  /\ cookies = {}
  /\ cookiesDir = NoCookiesDir

InitPages == browserPages = TabList /\ tabs = NoTabs /\ newTabs = NoNewTabs

InitBrowser == InitPages /\ InitSnapshots

InitWith(b) == InitSession(b) /\ Established /\ InitBrowser

Init == InitWith([events |-> MaxEvents, attach |-> MaxAttach, dumps |-> MaxDumps])

Attach == \E p \in Pages : InitialAttach(p)

Capture ==
  \/ \E p \in Pages, kind \in ConsoleKinds : EmitConsole(p, kind)
  \/ \E p \in Pages : EmitPageError(p)
  \/ \E p \in Pages, r \in Reqs : EmitRequest(p, r)
  \/ \E r \in Reqs, body \in BodyKinds : EmitResponse(r, body)
  \/ \E r \in Reqs, oauth \in BOOLEAN : EmitRequestFailed(r, oauth)
  \/ \E h \in pending : ResumeHandler(h)

Pause ==
  \/ KeyP
  \/ \E v \in BOOLEAN : HttpSetPaused(v)

Switch ==
  \/ KeyT
  \/ SwitchTabsListed
  \/ \E key \in Keys : SwitchTabsKey(key)
  \/ \E i \in 0 .. Len(TabList) + 1 : HttpSwitchStart(i)
  \/ \E i \in httpSwitch : HttpSwitchResume(i)

Shutdown ==
  \/ \E sig \in {"SIGINT", "SIGTERM"} : Signal(sig)
  \/ KeyCtrlC
  \/ KeyQ
  \/ KeyK
  \/ \E event \in {"uncaughtException", "unhandledRejection"} : FatalError(event)
  \/ HardTimeout
  \/ CleanupCloseBrowser
  \/ CleanupExit

Dump ==
  \/ \E surface \in {"key", "http"} : DumpStart(surface)
  \/ \E d \in dumps : DumpStep(d)
  \/ KeyC

DumpFailure ==
  \/ \E d \in dumps : DumpStepFails(d)
  \/ \E surface \in {"key", "http"}, at \in {"console", "network", "details"} :
       DumpStartFails(surface, at)

Status == KeyS \/ StatusReport \/ HttpStatus

Next == Attach \/ Capture \/ Throws \/ Pause \/ Switch \/ Shutdown \/ Dump \/ DumpFailure
          \/ Status \/ NextConnect

Spec == Init /\ [][Next]_vars

\* The listener lifecycle alone: initial attach, both switch surfaces, shutdown.
NextAttach == Attach \/ Switch \/ Shutdown

SpecAttach == Init /\ [][NextAttach]_vars

\* The capture engine on the attached page, with pause/resume and clear.
NextCapture == Attach \/ Capture \/ Pause \/ KeyC

SpecCapture == Init /\ [][NextCapture]_vars

\* The capture engine with tab switches from both surfaces.
NextSwitch == Attach \/ Capture \/ Switch

SpecSwitch == Init /\ [][NextSwitch]_vars

\* The capture engine with dumps from both surfaces and clear.
NextDump == Attach \/ Capture \/ Dump

SpecDump == Init /\ [][NextDump]_vars

\* The request numbering across clears, pause/resume and tab switches. Of a dump only
\* its last step, clearAllBuffers, touches the state the ids live in, and KeyC takes
\* that step at any moment.
IdsAttach == 2   \* calls of setupPageMonitoring in one run of SpecIds

CaptureIds ==
  \/ \E p \in Pages, r \in Reqs : EmitRequest(p, r)
  \/ \E r \in Reqs : EmitResponse(r, "text")
  \/ \E r \in Reqs : EmitRequestFailed(r, TRUE)
  \/ \E h \in pending : ResumeHandler(h)

SwitchIds ==
  \/ \E i \in 1 .. Len(TabList) : HttpSwitchStart(i)
  \/ \E i \in httpSwitch : HttpSwitchResume(i)

NextIds == Attach \/ CaptureIds \/ KeyC \/ KeyP \/ SwitchIds

SpecIds == InitWith([events |-> MaxEvents, attach |-> IdsAttach, dumps |-> MaxDumps])
             /\ [][NextIds]_vars

\* Request correlation alone: starts, completions and failures of concurrent requests
\* on the attached tab and on the other one, with pause and resume, and with enough
\* events for two requests to start and complete.
CorrEvents == 4   \* page events in one run of SpecCorrelate

CaptureRequests ==
  \/ \E p \in Pages, r \in Reqs : EmitRequest(p, r)
  \/ \E r \in Reqs, body \in BodyKinds : EmitResponse(r, body)
  \/ \E r \in Reqs : EmitRequestFailed(r, TRUE)
  \/ \E h \in pending : ResumeHandler(h)

NextCorrelate == Attach \/ CaptureRequests \/ KeyP

SpecCorrelate == InitWith([events |-> CorrEvents, attach |-> MaxAttach, dumps |-> MaxDumps])
                   /\ [][NextCorrelate]_vars

\* The dump and the status query: synchronous capture events fill both buffers and
\* the detail store, dumps run from both surfaces with collaborators that succeed
\* or fail, and nothing but a dump clears.
DumpEvents == 2   \* page events in one run of SpecDumpIO and SpecDumpFail

CaptureDump ==
  \/ \E p \in Pages : EmitPageError(p)
  \/ \E p \in Pages, r \in Reqs : EmitRequest(p, r)

DumpSteps ==
  \/ \E surface \in {"key", "http"} : DumpStart(surface)
  \/ \E d \in dumps : DumpStep(d)
  \/ \E d \in dumps : DumpStepFails(d)

NextDumpIO == Attach \/ CaptureDump \/ DumpSteps \/ Status

SpecDumpIO == InitWith([events |-> DumpEvents, attach |-> MaxAttach, dumps |-> MaxDumps])
                /\ [][NextDumpIO]_vars

\* The same with writes that fail.
NextDumpFail == Attach \/ CaptureDump \/ DumpSteps \/ DumpFailure

SpecDumpFail == InitWith([events |-> DumpEvents, attach |-> MaxAttach, dumps |-> MaxDumps])
                  /\ [][NextDumpFail]_vars

\* The capture engine while the session shuts down: page events and suspended
\* handlers interleave with the triggers and with the steps of cleanup.
NextShutdown == Attach \/ Capture \/ Shutdown

SpecShutdown == Init /\ [][NextShutdown]_vars

\* The listener lifecycle with what the event loop guarantees about a shutdown: an
\* armed timer fires, and once closeBrowserFn has disconnected (a synchronous call)
\* cleanup goes on to process.exit. When the callback of httpServer.close arrives
\* depends on the clients that hold connections, and when browser.close() resolves
\* depends on the browser: neither step is fair.
SpecTimeout ==
  /\ Init /\ [][NextAttach]_vars
  /\ WF_vars(HardTimeout)
  /\ WF_vars(CleanupExit /\ ~cleanupArgs.closeBrowser)

\* The capture engine with handlers that throw, and a shutdown the operator starts.
ErrEvents == 3   \* page events in one run of SpecErrors

QuitByKey == KeyQ \/ CleanupCloseBrowser \/ CleanupExit

NextErrors == Attach \/ Capture \/ Throws \/ QuitByKey

SpecErrors == InitWith([events |-> ErrEvents, attach |-> MaxAttach, dumps |-> MaxDumps])
                /\ [][NextErrors]_vars

\* The port-proxy operations on the rules Windows holds, in any order.
PortProxyOps ==
  \/ \E port \in Ports : RemovePortProxyIfExists(port)
  \/ \E port \in Ports, proxyType \in Types : SetupPortProxy(port, proxyType)
  \/ \E port \in Ports, proxyType \in Types : LaunchPortProxy(port, proxyType)
  \/ \E port \in Ports : ExistingPortProxy(port)
  \/ \E port \in Ports : FixPortProxy(port)

NoSession == [events |-> 0, attach |-> 0, dumps |-> 0]

InitPortProxy == /\ InitSession(NoSession) /\ InitBrowser
                 /\ ConnStart([mode |-> "open", wsl |-> TRUE, hint |-> FALSE], MaxRules)

SpecPortProxy == InitPortProxy /\ [][PortProxyOps]_vars

\* The connection manager alone, for every intent.
InitConnect == InitSession(NoSession) /\ InitBrowser /\ \E i \in Intents : ConnStart(i, ConnRules)

SpecConnect == InitConnect /\ [][NextConnect]_vars

\* Join mode outside WSL: the discovery of a Chrome to join, up to the connect. The
\* scan returns and the operator answers every prompt: no step that can be taken is
\* put off for ever.
NextDiscover ==
  \/ JoinStart
  \/ \E instances \in 0 .. 2 : JoinPoll(instances)
  \/ JoinRepoll
  \/ \E port \in {0, 9222, 9223} : JoinSelect(port)
  \/ \E ok \in BOOLEAN, refused \in BOOLEAN : JoinConnect(ok, refused)
  \/ Abort

InitDiscover ==
  /\ InitSession(NoSession) /\ InitBrowser
  /\ \E hint \in BOOLEAN :
       ConnStart([mode |-> "join", wsl |-> FALSE, hint |-> hint], ConnRules)

SpecDiscover ==
  /\ InitDiscover
  /\ [][NextDiscover]_vars
  /\ WF_vars(NextDiscover)

\* ------------------------------------------------------- vocabulary of the claims
\* the request objects whose life cycle advances in a step: the step is a request event
ChangedReqs == {r \in Reqs : reqPhase'[r] # reqPhase[r]}

EmitStep  == emitted' = emitted + 1
StartStep == \E r \in ChangedReqs : reqPhase'[r] = "sent"
RespStep  == \E r \in ChangedReqs : reqPhase'[r] = "responded"
FailStep  == \E r \in ChangedReqs : reqPhase'[r] = "closed"
\* a console message or a page error
ConStep   == EmitStep /\ ChangedReqs = {}

\* the event of this step reaches a handler
HeardStep == ChangedReqs = {} \/ \E r \in ChangedReqs : Hear(reqOwner'[r]) # {}

\* the event of this step passes the pause gate of a handler
Handled == EmitStep /\ HeardStep /\ ~collectingPaused

\* bufp is buf with n lines appended
Appended(buf, bufp, n) ==
  /\ Len(bufp) = Len(buf) + n
  /\ SubSeq(bufp, 1, Len(buf)) = buf

LinesOf(buf) == {buf[i] : i \in 1 .. Len(buf)}

EventLines(buf) == {x \in LinesOf(buf) : x.ev # 0}

C2_NothingFromPreviousPage ==
  /\ \A x \in EventLines(consoleBuffer) \cup EventLines(networkBuffer) :
       x.att # NoPage => x.src = x.att
  /\ \A x \in requestDetails :
       (x.updates > 0 /\ x.updAtt # NoPage) => x.updSrc = x.updAtt

\* ---------------------------------------------------------------------- C3
\* C3: when a dump clears the buffers and the details, everything in them has been
\* written to the artifacts.
C3_DumpLosesNothing ==
  [][ (\E d \in dumps : d \notin dumps' /\ d.pc = "screenshot") => Unwritten = {} ]_vars

\* ---------------------------------------------------------------------- C4
\* C4: on a step during which the pause flag stays set, neither buffer nor the
\* detail store grows and the in-flight map does not change.
C4_PausedNeverGrows ==
  [][ (collectingPaused /\ collectingPaused') =>
        /\ Len(consoleBuffer') <= Len(consoleBuffer)
        /\ Len(networkBuffer') <= Len(networkBuffer)
        /\ Cardinality(requestDetails') <= Cardinality(requestDetails)
        /\ requestData' = requestData ]_vars

\* ---------------------------------------------------------------------- C5
\* C5: an event delivered while the flag is clear is recorded (a line, or a handler
\* suspended on it); an event delivered while the flag is set changes nothing, and
\* no line, detail or suspended handler ever stems from such an event.
C5_Recorded ==
  \/ \E x \in LinesOf(consoleBuffer') \cup LinesOf(networkBuffer') : x.ev = emitted'
  \/ \E h \in pending' : h.ev = emitted'

C5_NothingGated ==
  /\ \A x \in LinesOf(consoleBuffer) \cup LinesOf(networkBuffer) : ~x.gated
  /\ \A x \in requestDetails : ~x.gated
  /\ \A h \in pending : ~h.gated

C5_PauseGate ==
  /\ []C5_NothingGated
  /\ [][ EmitStep =>
          IF collectingPaused
          THEN UNCHANGED << consoleBuffer, networkBuffer, requestDetails, requestCounter,
                            requestData, pending >>
          ELSE HeardStep => C5_Recorded ]_vars

\* request 1 was started on the attached page while paused and got no id; after the
\* resume request 2 was started and recorded with the first id
C5_Witness ==
  /\ ~collectingPaused
  /\ reqPhase[1] = "sent" /\ reqOwner[1] = Attached
  /\ reqPhase[2] = "sent" /\ reqOwner[2] = Attached
  /\ requestCounter = 1
  /\ \E x \in requestDetails : x.req = 2 /\ x.id = 1

\* ---------------------------------------------------------------------- C6
\* a step of clearAllBuffers
ClearStep == requestDetails' = {} /\ consoleBuffer' = << >> /\ networkBuffer' = << >>

\* C6: every stored detail is pending or carries exactly one terminal part, never
\* both, and is updated at most once; a request-started event handled while not
\* paused adds exactly one detail and, clears apart, nothing else changes their number.
C6_OneTerminalPart ==
  \A x \in requestDetails :
    /\ ~(x.response /\ x.failed)
    /\ x.updates <= 1
    /\ (x.updates = 1) <=> (x.response \/ x.failed)

C6_DetailPerRequest ==
  /\ []C6_OneTerminalPart
  /\ [][ IF Handled /\ StartStep
         THEN Cardinality(requestDetails') = Cardinality(requestDetails) + 1
         ELSE ClearStep \/ Cardinality(requestDetails') = Cardinality(requestDetails) ]_vars

\* a request was started, completed and then failed, all handled: its detail has the
\* response part only and the failure is logged under the placeholder id
C6_Witness ==
  /\ emitted = 3
  /\ \E x \in requestDetails : x.response /\ ~x.failed /\ reqPhase[x.req] = "closed"
  /\ \E y \in LinesOf(networkBuffer) :
       y.kind \in {"[FAILED]", "[FAILED] oauth2/sign_in"} /\ y.id = PlaceholderId

\* ---------------------------------------------------------------------- C7
\* C7 as stated: once a terminal event of a request has been delivered the in-flight
\* map holds no entry for it.
C7_NoEntryAfterTerminal ==
  \A r \in Reqs :
    reqPhase[r] \in {"responded", "closed"} => \A m \in requestData : m.req # r

\* C7, amended: once a terminal event of a request has been handled while collection
\* is not paused the map holds no entry for it; in a run without tab switch an entry
\* leaves the map only on such an event of its own request.
C7_RemovedWhenHandled ==
  [][ /\ \A r \in ChangedReqs :
           (Handled /\ reqPhase'[r] \in {"responded", "closed"})
             => \A m \in requestData' : m.req # r
      /\ \A m \in requestData \ requestData' :
           Handled /\ m.req \in ChangedReqs /\ reqPhase'[m.req] \in {"responded", "closed"}
    ]_vars

\* a started request failed while collection was not paused: the event removed the
\* entry from the map and updated the detail
C7_Witness ==
  /\ requestData = {}
  /\ ~collectingPaused
  /\ \E x \in requestDetails : x.failed /\ reqPhase[x.req] = "closed"
  /\ \A y \in LinesOf(networkBuffer) : y.kind # "<--"

\* ---------------------------------------------------------------------- C8
\* C8: ids are handed out in increasing order of the request-started events and
\* never twice, across clears, pause/resume and tab switches: the lines of started
\* requests carry increasing ids, every id in use is at most the counter, a started
\* request takes an id above the counter; an id held by the in-flight map, by a
\* suspended response handler or by an update is the id of that request's own detail.
C8_StartLines == {x \in LinesOf(networkBuffer) : x.kind = "-->"}

C8_IdsInUse ==
  /\ \A a, b \in C8_StartLines : a.ev < b.ev => a.id < b.id
  /\ \A i, j \in 1 .. Len(networkBuffer) :
       (i < j /\ networkBuffer[i].kind = "-->" /\ networkBuffer[j].kind = "-->")
         => networkBuffer[i].id < networkBuffer[j].id
  /\ \A a \in C8_StartLines : a.id \in 1 .. requestCounter
  /\ \A x \in requestDetails : x.id \in 1 .. requestCounter
  /\ \A m \in requestData : m.id \in 1 .. requestCounter
  /\ \A m \in requestData, x \in requestDetails : m.id = x.id => m.req = x.req
  /\ \A h \in pending, x \in requestDetails :
       (h.h = "response" /\ h.id = x.id) => h.req = x.req
  /\ \A x \in requestDetails : x.updates > 0 => x.updReq = x.req

C8_IdsDistinct ==
  /\ []C8_IdsInUse
  /\ [][ /\ requestCounter' >= requestCounter
         /\ (Handled /\ StartStep) =>
              /\ requestCounter' > requestCounter
              /\ \E x \in requestDetails' : x.id = requestCounter' /\ x.ev = emitted'
              /\ \E m \in requestData' : m.id = requestCounter' ]_vars

\* request 1 was started, the buffers were cleared, request 2 was started, and then
\* the response of request 1 was handled: logged under id 1, while the only stored
\* detail, that of request 2, is untouched
C8_Witness ==
  /\ \E y \in LinesOf(networkBuffer) : y.kind = "<--" /\ y.id = 1
  /\ \E x \in requestDetails : x.id = 2 /\ x.req = 2 /\ x.updates = 0
  /\ \A x \in requestDetails : x.id # 1

\* ---------------------------------------------------------------------- C9
\* C9: within each buffer the lines of events stand in the order in which the
\* events were delivered.
C9_InOrder(buf) ==
  \A i, j \in 1 .. Len(buf) :
    (i < j /\ buf[i].ev # 0 /\ buf[j].ev # 0) => buf[i].ev <= buf[j].ev

C9_EmissionOrder == C9_InOrder(consoleBuffer) /\ C9_InOrder(networkBuffer)

\* --------------------------------------------------------------------- C10
LastLine(buf) == buf[Len(buf)]

\* a suspended handler runs to its end in this step
ResumedHere(h) == h \in pending /\ h \notin pending'

\* a console message that matches an ignore pattern is dropped by design
C10_Dropped(h) == h.h = "console" /\ h.kind = "ignored"

\* text lines (separators apart) that the step adds for the event numbered ev
C10_NewLines(buf, bufp, ev) ==
  LET kept == IF Len(buf) <= Len(bufp) /\ SubSeq(bufp, 1, Len(buf)) = buf
              THEN Len(buf) ELSE 0
  IN  Cardinality({i \in kept + 1 .. Len(bufp) : bufp[i].ev = ev})

C10_StartLine ==
  /\ Appended(networkBuffer, networkBuffer', 1)
  /\ LastLine(networkBuffer').ev = emitted' /\ LastLine(networkBuffer').kind = "-->"
  /\ consoleBuffer' = consoleBuffer

C10_ResponseLine(ev) ==
  /\ Appended(networkBuffer, networkBuffer', 1)
  /\ LastLine(networkBuffer').ev = ev /\ LastLine(networkBuffer').kind = "<--"
  /\ consoleBuffer' = consoleBuffer

C10_FailedLines ==
  /\ Appended(networkBuffer, networkBuffer', 1)
  /\ LastLine(networkBuffer').ev = emitted'
  /\ IF LastLine(networkBuffer').kind = "[FAILED]"
     THEN /\ Appended(consoleBuffer, consoleBuffer', 1)
          /\ LastLine(consoleBuffer').ev = emitted'
          /\ LastLine(consoleBuffer').kind = "[FAILED]"
     ELSE /\ LastLine(networkBuffer').kind = "[FAILED] oauth2/sign_in"
          /\ consoleBuffer' = consoleBuffer

C10_ConsoleLines ==
  /\ networkBuffer' = networkBuffer
  /\ \/ /\ Appended(consoleBuffer, consoleBuffer', 1)
        /\ LastLine(consoleBuffer').ev = emitted'
        /\ LastLine(consoleBuffer').kind = "PAGE ERROR"
     \/ /\ Len(consoleBuffer') = 1
        /\ consoleBuffer'[1].ev = emitted' /\ consoleBuffer'[1].kind = "CONSOLE CLEARED"
     \/ /\ consoleBuffer' = consoleBuffer
        /\ \E h \in pending' \ pending : h.h = "console" /\ h.ev = emitted'

C10_ConsoleResumed(h) ==
  /\ networkBuffer' = networkBuffer
  /\ Appended(consoleBuffer, consoleBuffer',
              CASE h.kind = "ignored" -> 0 [] h.kind = "hmr" -> 2 [] OTHER -> 1)
  /\ h.kind # "ignored" => LastLine(consoleBuffer').ev = h.ev
  /\ h.kind = "hmr" => consoleBuffer'[Len(consoleBuffer) + 1].ev = 0

C11_Unmatched ==
  /\ Handled
  /\ \E r \in ChangedReqs :
       /\ reqPhase'[r] \in {"responded", "closed"}
       /\ \A l \in Hear(reqOwner[r]) : MapGet(l.inst, r) = {}

\* C11: a response or requestfailed event without an in-flight entry, handled while
\* not paused, appends one network line that carries the placeholder id, changes no
\* detail, leaves the in-flight map as it is and suspends no handler.
C11_UnmatchedLogged ==
  [][ C11_Unmatched =>
        /\ Appended(networkBuffer, networkBuffer', 1)
        /\ networkBuffer'[Len(networkBuffer')].ev = emitted'
        /\ networkBuffer'[Len(networkBuffer')].id = PlaceholderId
        /\ networkBuffer'[Len(networkBuffer')].kind \in
             {"<--", "[FAILED]", "[FAILED] oauth2/sign_in"}
        /\ requestDetails' = requestDetails
        /\ requestData' = requestData
        /\ pending' = pending ]_vars

\* request 1 got no id (it was started while paused, or on a tab that was attached
\* only later); its response and then its failure were each logged under the
\* placeholder id, and no detail and no in-flight entry came of them
C11_Witness ==
  /\ requestCounter = 0
  /\ reqPhase[1] = "closed" /\ reqOwner[1] = Attached
  /\ Len(networkBuffer) = 2
  /\ networkBuffer[1].kind = "<--" /\ networkBuffer[1].id = PlaceholderId
  /\ networkBuffer[2].kind = "[FAILED] oauth2/sign_in" /\ networkBuffer[2].id = PlaceholderId
  /\ requestDetails = {} /\ requestData = {}

\* --------------------------------------------------------------------- C12
C12_Lines(kind, id) ==
  {i \in 1 .. Len(networkBuffer) : networkBuffer[i].kind = kind /\ networkBuffer[i].id = id}

\* every stored detail has exactly one outbound line with its id, written for the
\* event that started it, and one inbound line with its id exactly if it holds a
\* response, which then is the response of its own request; an id in the in-flight
\* map or in a suspended response handler is the id of that request's detail
C12_OneOutOneIn ==
  /\ \A x \in requestDetails :
       /\ Cardinality(C12_Lines("-->", x.id)) = 1
       /\ \A i \in C12_Lines("-->", x.id) : networkBuffer[i].ev = x.ev
       /\ Cardinality(C12_Lines("<--", x.id)) = (IF x.response THEN 1 ELSE 0)
       /\ x.response => x.updReq = x.req
  /\ \A m \in requestData : \E x \in requestDetails : x.id = m.id /\ x.req = m.req
  /\ \A h \in pending :
       h.h = "response" => \E x \in requestDetails : x.id = h.id /\ x.req = h.req

\* C12: for every request whose start and completion are handled, with other
\* requests in flight and completions in any order, the response is recorded in the
\* detail whose id was allocated at the start of that request, and the network log
\* holds exactly one outbound and one inbound line with that id.
C12_Correlated ==
  /\ []C12_OneOutOneIn
  /\ [][ /\ \A r \in ChangedReqs : \A l \in Hear(reqOwner[r]) : \A m \in MapGet(l.inst, r) :
              (Handled /\ reqPhase'[r] = "responded") =>
                 \/ \E h \in pending' \ pending : h.req = r /\ h.id = m.id
                 \/ \E x \in requestDetails' : x.req = r /\ x.id = m.id /\ x.response
         /\ \A h \in pending : (ResumedHere(h) /\ h.h = "response") =>
              \E x \in requestDetails' : x.req = h.req /\ x.id = h.id /\ x.response ]_vars

\* two requests were in flight together and the later one completed first: each
\* detail holds the response of its own request
C12_Witness ==
  /\ \E x, y \in requestDetails :
       /\ x.id = 1 /\ y.id = 2
       /\ x.response /\ y.response
       /\ x.updReq = x.req /\ y.updReq = y.req
  /\ \E i, j \in 1 .. Len(networkBuffer) :
       /\ i < j
       /\ networkBuffer[i].kind = "<--" /\ networkBuffer[i].id = 2
       /\ networkBuffer[j].kind = "<--" /\ networkBuffer[j].id = 1

\* --------------------------------------------------------------------- C13
\* C13: once a clear message has been handled, the console buffer holds no entry
\* of an event delivered before that clear message.
C13_NothingOlderThanClear ==
  \A i, j \in 1 .. Len(consoleBuffer) :
    (consoleBuffer[i].kind = "CONSOLE CLEARED" /\ consoleBuffer[j].ev # 0)
      => consoleBuffer[j].ev >= consoleBuffer[i].ev

\* --------------------------------------------------------------------- C14
\* the step starts, advances or ends a dump
DumpMoves == dumps' # dumps \/ dumpsStarted' # dumpsStarted

BuffersTouched ==
  \/ consoleBuffer' # consoleBuffer
  \/ networkBuffer' # networkBuffer
  \/ requestDetails' # requestDetails

\* the dump d ends in this step
DumpEnds(d) == d \in dumps /\ \A e \in dumps' : e.surface # d.surface

\* C14: a dump is in flight only once its console, network and per-request writes
\* are done; it passes the cookies, the DOM and the screenshot collaborator in this
\* order, whether they fail or not, and ends only after the last of them; a step of
\* a dump touches the buffers and the details only when it ends the dump, and then
\* it clears them.
C14_ClearedLast ==
  [][ /\ \A d \in dumps' \ dumps :
           \/ /\ d.pc = "cookies" /\ d.failed = {}
              /\ consoleLog' = consoleBuffer /\ networkLog' = networkBuffer
              /\ networkDir' = requestDetails
           \/ \E c \in dumps : /\ c.surface = d.surface
                               /\ << c.pc, d.pc >> \in {<< "cookies", "dom" >>,
                                                        << "dom", "screenshot" >>}
      /\ \A d \in dumps : DumpEnds(d) => d.pc = "screenshot"
      /\ (DumpMoves /\ BuffersTouched) =>
           /\ \E d \in dumps : DumpEnds(d)
           /\ consoleBuffer' = << >> /\ networkBuffer' = << >> /\ requestDetails' = {}
    ]_vars

\* the cookies and the DOM collaborator of a dump have failed, the screenshot is
\* being taken: the files hold what the buffers hold, and the buffers are not
\* cleared yet
C14_Witness ==
  \E d \in dumps :
    /\ d.pc = "screenshot" /\ d.failed = {"cookies", "dom"}
    /\ consoleBuffer # << >> /\ consoleLog = consoleBuffer
    /\ requestDetails # {} /\ networkDir = requestDetails

\* --------------------------------------------------------------------- C15
\* C15: a dump that has started goes on to its collaborators whatever write failed,
\* and a dump clears the in-memory state at its end.
C15_FailureDoesNotAbort ==
  [][ /\ dumpsStarted' = dumpsStarted + 1 => \E d \in dumps' \ dumps : d.pc = "cookies"
      /\ \A d \in dumps : DumpEnds(d) =>
           consoleBuffer' = << >> /\ networkBuffer' = << >> /\ requestDetails' = {} ]_vars

\* --------------------------------------------------------------------- C16
ZeroStats == [consoleEntries |-> 0, networkEntries |-> 0, requestDetails |-> 0]

\* C16: the step that ends a dump leaves stats of zero console entries, zero
\* network entries and zero request details, and a status query reports the stats
\* of the state it reads, changing none of them: a status read in the state a dump
\* has left reports zeros.
C16_ZeroAfterDump ==
  [][ /\ \A d \in dumps : DumpEnds(d) => getStats' = ZeroStats
      /\ statusBlock' # statusBlock =>
           /\ statusBlock' = [shown |-> TRUE, stats |-> getStats, at |-> emitted]
           /\ getStats' = getStats ]_vars

\* every event emitted was a request that got recorded, a dump wrote them to the
\* network log and cleared, and the status read after it reported zeros
C16_Witness ==
  /\ emitted = 2 /\ requestCounter = 2
  /\ dumps = {}
  /\ Len(networkLog) >= 2
  /\ statusBlock.shown /\ statusBlock.at = 2 /\ statusBlock.stats = ZeroStats

\* --------------------------------------------------------------------- C17
\* C17: a dump overwrites the console log and the network log with the buffers and
\* the per-request directory with the details, also when they are empty, and
\* nothing else writes them: after a dump each artifact shows what that dump found.
C17_NoStaleArtifact ==
  [][ IF dumpsStarted' = dumpsStarted + 1
      THEN /\ consoleLog' = consoleBuffer
           /\ networkLog' = networkBuffer
           /\ networkDir' = requestDetails
      ELSE UNCHANGED fileVars ]_vars

\* recorded events were dumped and cleared, and a second dump, finding the buffers
\* empty, has left every artifact empty
C17_Witness ==
  /\ dumpsStarted = 2
  /\ emitted = 2 /\ requestCounter >= 1
  /\ consoleBuffer = << >> /\ networkBuffer = << >> /\ requestDetails = {}
  /\ consoleLog = << >> /\ networkLog = << >> /\ networkDir = {}
  /\ \E d \in dumps : d.pc = "cookies"

\* --------------------------------------------------------------------- C18
\* C18: whatever shutdown triggers arrive and in whatever order, also while an
\* earlier cleanup is suspended closing the HTTP server or the browser, the body of
\* cleanup is entered at most once: once cleanupDone is set no trigger enters it
\* again or changes its arguments, and its steps (server closed, listeners detached
\* and browser released, exit) are each taken once, in this order.
C18_CleanupOnce ==
  /\ [](cleanupRuns <= 1 /\ (cleanupDone <=> cleanupRuns = 1))
  /\ [][ /\ cleanupDone => cleanupRuns' = cleanupRuns /\ cleanupArgs' = cleanupArgs
         /\ cleanupPc' # cleanupPc =>
              << cleanupPc, cleanupPc' >> \in { << "idle", "http" >>,
                                                << "http", "browser" >>,
                                                << "browser", "exited" >> } ]_vars

\* a trigger with exit code 0 started the cleanup, the hard timeout fired while
\* that cleanup was suspended, and the process has exited after one run of the body
C18_Witness ==
  /\ timer = "fired"
  /\ cleanupArgs.code = 0
  /\ cleanupRuns = 1
  /\ cleanupPc = "exited"

\* --------------------------------------------------------------------- C19
\* C19: once cleanup has started no page event is recorded (neither buffer grows and
\* no detail is added or changed), and the control channel is released only with
\* the listeners detached: stop accepting, then detach, then release.
C19_StopDetachRelease ==
  /\ [][ cleanupDone => /\ Len(consoleBuffer') <= Len(consoleBuffer)
                        /\ Len(networkBuffer') <= Len(networkBuffer)
                        /\ requestDetails' = requestDetails ]_vars
  /\ [][ browser /\ ~browser' => cleanupDone /\ listeners' = {} ]_vars
  /\ [](~browser => listeners = {})

\* --------------------------------------------------------------------- C20
\* C20: once the timer of the hard timeout has fired the process eventually exits,
\* whatever state the session is in, also when a cleanup that another trigger
\* started is still waiting for the HTTP server or the browser to close.
C20_TimeoutExits == (timer = "fired") ~> (cleanupPc = "exited")

\* --------------------------------------------------------------------- C21
\* a capture handler caught a stale-context exception in this step
StaleStep == thrown'.stale # thrown.stale

\* C21: an exception with a stale-context message raised in a capture handler is
\* swallowed in the handler: it does not reach the error handlers of the process, it
\* starts no cleanup and leaves the listeners, the pause flag and the channel as they
\* were; an event that passes the pause gate afterwards without throwing is recorded.
C21_StaleSwallowed ==
  /\ [][ StaleStep =>
           /\ thrown'.propagated = thrown.propagated
           /\ UNCHANGED << cleanupDone, cleanupPc, cleanupArgs, cleanupRuns >>
           /\ UNCHANGED << listeners, activePageCleanup, collectingPaused, browser >> ]_vars
  /\ [][ thrown.stale # 0 /\ Handled /\ thrown' = thrown => C5_Recorded ]_vars

\* a handler swallowed a stale-context exception, no cleanup started, and a page
\* error emitted after the event that threw has its line in the console buffer
C21_Witness ==
  /\ thrown.stale # 0 /\ thrown.fatal = 0
  /\ ~cleanupDone
  /\ \E x \in LinesOf(consoleBuffer) : x.ev > thrown.stale /\ x.kind = "PAGE ERROR"

AttemptsOfMode == IF intent.mode = "open" /\ intent.wsl THEN MAX_RETRIES ELSE 1

C24_DeclineChangesNothing ==
  /\ [][ "fix" \in declined' \ declined =>
           connPc' = "exited" /\ exitCode' = 1 /\ diagnosis.result = "conflict" ]_vars
  /\ [][ diagnosis'.runs > 0 /\ "fix" \notin confirmed' =>
           portProxy' = portProxy /\ lastCall' = lastCall /\ chrome' = chrome ]_vars

\* five failed attempts, a conflict diagnosed, the fix declined, the run over
C24_Witness ==
  /\ attempts = MAX_RETRIES
  /\ diagnosis.result = "conflict"
  /\ "fix" \in declined
  /\ connPc = "exited" /\ exitCode = 1
  /\ portProxy # {}

\* C25: once the operator has confirmed the fix, the stale rule is removed, the
\* target is started again and the run makes exactly one further handshake attempt,
\* which ends it connected or failed.
C25_FixThenOneMoreAttempt ==
  "fix" \in confirmed =>
    /\ connPc \in {"retry", "handshake", "connect", "connected", "exited"}
    /\ connPc \in {"connected", "exited"} => attempts = AttemptsOfMode + 1
    /\ connPc = "exited" => exitCode = 1

\* the question the operator must have answered with yes before an operation may run
\* its netsh add/delete commands; none is asked for the other operations
QuestionOf(fn) == IF fn = "existing" THEN {"proxy"} ELSE IF fn = "fix" THEN {"fix"} ELSE {}

\* C26: no netsh add or delete command is run unless the operator has confirmed that
\* change of the forwarding rules in the same run.
C26_MutationsConfirmed ==
  [][ lastCall' # lastCall /\ lastCall'.cmds # << >> =>
        QuestionOf(lastCall'.fn) \cap confirmed' # {} ]_vars

\* C27: every add command that installs a rule for a listen port comes after delete
\* commands for the rules of both types that exist for that port, and after it the
\* port has exactly one rule.
C27_RemoveBeforeAdd ==
  [][ \A i \in 1 .. Len(lastCall'.cmds) :
        (lastCall' # lastCall /\ lastCall'.cmds[i].op = "add" /\ lastCall'.cmds[i].ok) =>
          LET add == lastCall'.cmds[i]
          IN  /\ \A r \in RulesOn(portProxy, add.port) :
                   \E j \in 1 .. i - 1 :
                      /\ lastCall'.cmds[j].op = "delete"
                      /\ lastCall'.cmds[j].type = r.type
                      /\ lastCall'.cmds[j].port = add.port
              /\ Cardinality(RulesOn(portProxy', add.port)) = 1 ]_vars

\* C28: removePortProxyIfExists(port) called right after a removePortProxyIfExists of
\* the same port that removed a rule runs no delete command, changes no rule and
\* returns false.
C28_SecondRemoveIsNoOp ==
  [][ ( /\ lastCall.fn = "removePortProxyIfExists" /\ lastCall.ret
        /\ lastCall'.n = lastCall.n + 1
        /\ lastCall'.fn = "removePortProxyIfExists"
        /\ lastCall'.port = lastCall.port )
      => lastCall'.cmds = << >> /\ portProxy' = portProxy /\ ~lastCall'.ret ]_vars

C30_DiscoveryEnds == (connPc = "poll") ~> (connPc \notin {"poll", "wait-repoll"})


\* ------------------------------------------------------------------ C31 .. C40
\* The tab list as a function of the pages of the browser: every list of up to
\* MaxPages pages, listed once.
InitTabs == /\ InitSession(NoSession) /\ Established /\ InitSnapshots
            /\ browserPages \in RawLists /\ tabs = NoTabs /\ newTabs = NoNewTabs

SpecTabs == InitTabs /\ [][HttpTabs]_vars

\* C31: the tab list holds only user pages, except that the raw list is returned
\* when the filter would leave nothing of a non-empty raw list; so a browser with
\* at least one page never yields an empty tab list.
C31_NeverEmptyTabList ==
  tabs.made =>
    LET shown == [i \in 1 .. Len(tabs.list) |-> tabs.list[i].page] IN
    /\ (Len(tabs.raw) >= 1 => Len(shown) >= 1)
    /\ \/ \A i \in 1 .. Len(shown) : isUserPage(shown[i])
       \/ (SelectSeq(tabs.raw, isUserPage) = << >> /\ shown = tabs.raw)

\* New tabs while the capture engine records a page: the browser starts with one
\* user tab and opens tabs up to MaxPages.
NewTabEvents == 2   \* page events in one run of SpecNewTab

NewTab ==
  \/ \E type \in {"page", "other"}, p \in PageObjects : TargetCreated(type, p)
  \/ \E p \in PageObjects : NewTabLogged(p)

NextNewTab == Attach \/ CaptureRequests \/ NewTab

InitNewTab == /\ InitSession([events |-> NewTabEvents, attach |-> MaxAttach, dumps |-> MaxDumps])
              /\ Established /\ InitSnapshots
              /\ browserPages = << "A" >> /\ tabs = NoTabs /\ newTabs = NoNewTabs

SpecNewTab == InitNewTab /\ [][NextNewTab]_vars

\* C32: a new-tab notification is surfaced (the handler logs the new tab) and
\* changes nothing else: the monitored page, the attached listeners, the
\* in-flight map and both buffers are as before.
C32_NewTabOnlyLogged ==
  [][ (newTabs' # newTabs) =>
        /\ UNCHANGED << page, listeners, activePageCleanup, requestData,
                        consoleBuffer, networkBuffer >>
        /\ \A p \in PageObjects :
             (p \in newTabs.awaiting /\ p \notin newTabs'.awaiting) =>
               newTabs'.logged = Append(newTabs.logged, p) ]_vars

\* a new tab was announced while the engine records tab A with a request in flight
C32_Witness ==
  /\ newTabs.logged # << >>
  /\ page = "A" /\ Attached = "A"
  /\ requestData # {}
  /\ consoleBuffer # << >>

\* The listener lifecycle with requests in flight: the initial attach, request
\* starts on either tab, both switch surfaces, and the shutdown.
DetachEvents == 2   \* page events in one run of SpecDetach

Requests == \E p \in Pages, r \in Reqs : EmitRequest(p, r)

NextDetach == Attach \/ Requests \/ Switch \/ Shutdown

SpecDetach == InitWith([events |-> DetachEvents, attach |-> MaxAttach, dumps |-> MaxDumps])
                /\ [][NextDetach]_vars

\* the step of closeBrowserFn, which calls cleanupActivePageListeners
DetachStep == cleanupPc = "http" /\ cleanupPc' = "browser"
\* a step that runs setupPageMonitoring, which calls it before it attaches
AttachStep == attachCount' = attachCount + 1

MaxQuarters == 8   \* document lengths up to MaxQuarters quarters of the ceiling

Documents ==
  { [len |-> q * (DOM_DUMP_MAX_BYTES \div 4) + d - 1, width |-> w] :
      q \in 1 .. MaxQuarters, d \in 0 .. 2, w \in 1 .. 3 }

NextDom == Attach \/ \E ok \in BOOLEAN : DumpDom(ok)

InitDom == /\ InitSession(NoSession) /\ Established /\ InitPages
           /\ html \in Documents
           /\ domHtml = NoDomHtml /\ cookies = {} /\ cookiesDir = NoCookiesDir

SpecDom == InitDom /\ [][NextDom]_vars

\* C34: when the serialized document exceeds DOM_DUMP_MAX_BYTES the stored
\* snapshot is exactly the ceiling-sized prefix (the characters that fit into the
\* ceiling) plus the truncation marker; otherwise it is the full document.
C34_CeilingSizedPrefix ==
  domHtml.written =>
    IF byteLength(html) > DOM_DUMP_MAX_BYTES
    THEN /\ domHtml.marker
         /\ domHtml.len * html.width <= DOM_DUMP_MAX_BYTES
         /\ (domHtml.len + 1) * html.width > DOM_DUMP_MAX_BYTES
    ELSE ~domHtml.marker /\ domHtml.len = html.len

\* The cookie snapshot while the cookies of the browser change.
NextCookies ==
  \/ Attach
  \/ \E ok \in BOOLEAN : DumpCookies(ok)
  \/ \E cs \in SUBSET Domains : SetCookies(cs)

InitCookies == /\ InitSession(NoSession) /\ Established /\ InitPages
               /\ html = [len |-> 0, width |-> 1] /\ domHtml = NoDomHtml
               /\ cookies \in SUBSET Domains /\ cookiesDir = NoCookiesDir

SpecCookies == InitCookies /\ [][NextCookies]_vars

\* C40: after a cookie snapshot that ran, also on a page with no cookies, the
\* cookie directory holds exactly the documents of the domains whose cookies
\* exist at that dump, and none written by an earlier dump.
C40_NoStaleCookieDocument ==
  [][ (cookiesDir'.n = cookiesDir.n + 1 /\ cookiesDir'.ran) =>
        /\ {f.name : f \in cookiesDir'.files} = {safeDomain(d) : d \in cookiesByDomain(cookies)}
        /\ \A f \in cookiesDir'.files : f.dump = cookiesDir'.n ]_vars

\* Tab switches on both surfaces for every tab list the browser may show (up to
\* MaxPages pages, user tabs and the new-tab page, at least one user tab), with a
\* browser that may go away.
SessionLists ==
  { l \in RawLists : /\ \A i \in 1 .. Len(l) : l[i] \in Pages \cup {"newtab"}
                     /\ filterUserPages(l) # << >> }

\* a second run of switchTabs, and a browser that goes away
SwitchAgain == KeyTAgain \/ LaterSwitchListed \/ ConnectionLost

NextTabSwitch == Attach \/ Requests \/ Switch \/ SwitchAgain

TabEvents == 1   \* page events in one run of SpecTabSwitch

InitTabSwitch == /\ InitSession([events |-> TabEvents, attach |-> MaxAttach, dumps |-> MaxDumps])
                 /\ Established /\ InitSnapshots
                 /\ browserPages \in SessionLists /\ tabs = NoTabs /\ newTabs = NoNewTabs

SpecTabSwitch == InitTabSwitch /\ [][NextTabSwitch]_vars

SwitchCore == << page, listeners, activePageCleanup, requestData, consoleBuffer, networkBuffer >>

\* a key that selects no page of the prompt: q, or no number of a listed tab
NoSelection(key) == key.name = "q" \/ parseInt(key.name) < 1 \/ parseInt(key.name) > Len(offered)

KeyboardSwitch ==
  \/ KeyT
  \/ SwitchTabsListed
  \/ \E key \in Keys : SwitchTabsKey(key)

NextPrompt == Attach \/ KeyboardSwitch \/ SwitchAgain \/ KeyP \/ KeyC \/ KeyCtrlC \/ KeyK
                \/ CleanupCloseBrowser \/ CleanupExit

SpecPrompt == Init /\ [][NextPrompt]_vars

\* C38: while a tab-selection prompt is pending every key except Ctrl+C is ignored
\* by the command handler, so the key that answers the prompt never also runs a
\* command; once the prompt has ended commands are accepted again.
C38_PromptKeysIgnored ==
  /\ switchPc = "asking" => \A key \in Keys : keyCommand(key, isSelectingTab) = "none"
  /\ promptKeyCommand = "none"
  /\ (switchPc = "idle" /\ laterSwitch = "idle") => ~isSelectingTab

\* C37: the cleanup that runs uses the exit code and the choice between closing
\* the browser and leaving it running of the first shutdown trigger; later
\* triggers change neither, and the browser is closed if and only if the first
\* trigger asked for it (key k), otherwise it is only disconnected.
C37_FirstTriggerDecides ==
  /\ [][ cleanupDone => cleanupArgs' = cleanupArgs ]_vars
  /\ [][ (~cleanupDone /\ cleanupDone') =>
           \/ (KeyK /\ cleanupArgs' = [code |-> 0, closeBrowser |-> TRUE])
           \/ (~KeyK /\ ~cleanupArgs'.closeBrowser) ]_vars
  /\ [](cleanupPc \in {"browser", "exited"} =>
          outcome.browser = IF cleanupArgs.closeBrowser THEN "closed" ELSE "disconnected")
  /\ [](cleanupPc \in {"idle", "http"} => outcome.browser = "open")
  /\ [](outcome.exited => cleanupPc = "exited" /\ outcome.code = cleanupArgs.code)

\* a trigger that leaves the browser running started the cleanup and the hard
\* timeout (exit code 1) arrived while it ran: the process has exited with code 0
\* and the browser was only disconnected
C37_Witness ==
  /\ outcome = [browser |-> "disconnected", exited |-> TRUE, code |-> 0]
  /\ timer = "fired"
  /\ cleanupRuns = 1

\* C39: when removePortProxyIfExists(port) returns true, no forwarding rule of
\* either type (v4tov4, v4tov6) is left on that listen port.
C39_RemovedLeavesNoRule ==
  [][ ( /\ lastCall'.n = lastCall.n + 1
        /\ lastCall'.fn = "removePortProxyIfExists"
        /\ lastCall'.ret )
      => RulesOn(portProxy', lastCall'.port) = {} ]_vars
====
